---- MODULE Spec2Model ----
(***************************************************************************)
(* Encrypted note store of the Journal Notes backend:                      *)
(*   backend/encryption_service.py  EncryptionService (PBKDF2 + AES-GCM)   *)
(*   backend/storage_backend.py     LocalFSBackend (one file per note)     *)
(*                                                                         *)
(* Cryptography is modelled symbolically: a derived key is the pair        *)
(* (password, salt), a ciphertext names the key, nonce and plaintext it    *)
(* was made from, and a tag names the key, nonce and ciphertext it         *)
(* authenticates.  os.urandom is modelled as a source that never returns   *)
(* the same bytes twice.                                                   *)
(***************************************************************************)
EXTENDS Integers, Sequences, FiniteSets, TLC

(***************************************************************************)
(* Bounds of the model.                                                    *)
(***************************************************************************)
MaxTime == 4
MaxEncrypt == 2

(***************************************************************************)
(* Program constants.                                                      *)
(***************************************************************************)
SaltLen == 16
NonceLen == 12
TagLen == 16

Ids == {"n1", "n2"}
\* an id with a path separator into a directory that does not exist
BadId == "x/n"
AllIds == Ids \cup {BadId}
\* an id with a "." component, which pathlib drops: its path is that of n1
DotId == "./n1"
\* self.notes_path / f"{note_id}.json": the file that the path names
file_path(note_id) == IF note_id = DotId THEN "n1" ELSE note_id
Passwords == {"password1", "password2"}
Times == 0..MaxTime

(***************************************************************************)
(* Python values.  Every value carries its type, as in Python.             *)
(***************************************************************************)
None == [ty |-> "none"]
PStr(s) == [ty |-> "str", v |-> s]
PInt(n) == [ty |-> "int", v |-> n]
PBool(b) == [ty |-> "bool", v |-> b]
PList(s) == [ty |-> "list", v |-> s]
PDict(d) == [ty |-> "dict", v |-> d]
Dt(t) == [ty |-> "datetime", ts |-> t]

Ok(v) == [ok |-> TRUE, v |-> v]
Err(e) == [ok |-> FALSE, exc |-> e]

\* bool(v) of a Python value
Truthy(v) ==
  CASE v.ty = "none" -> FALSE
    [] v.ty = "str" -> v.v # ""
    [] v.ty = "int" -> v.v # 0
    [] v.ty = "bool" -> v.v
    [] v.ty = "list" -> Len(v.v) > 0
    [] v.ty = "dict" -> DOMAIN v.v # {}
    [] OTHER -> TRUE

\* d.get(k)
DictGet(d, k) == IF k \in DOMAIN d THEN d[k] ELSE None

(***************************************************************************)
(* datetime.isoformat / datetime.fromisoformat                             *)
(***************************************************************************)
\* the ISO text of each time of the model, e.g. 2024-01-03T00:00:00+00:00
IsoText == [t \in Times |-> "2024-01-0" \o ToString(t + 1) \o "T00:00:00+00:00"]

\* a format that keeps the year and the month only
isoformat_MonthOnly(dt) == IsoText[0]

isoformat(dt) == IsoText[dt.ts]

fromisoformat(s) ==
  IF s.ty # "str" THEN Err("TypeError")
  ELSE IF \E t \in Times : IsoText[t] = s.v
       THEN Ok(Dt(CHOOSE t \in Times : IsoText[t] = s.v))
       ELSE Err("ValueError")

(***************************************************************************)
(* The data model: NoteEntry and TaskMetadata (pydantic models).           *)
(***************************************************************************)
TaskMetadata(priority, tags, due_date, completed, completed_at) ==
  [ty |-> "TaskMetadata", priority |-> priority, tags |-> tags,
   due_date |-> due_date, completed |-> completed, completed_at |-> completed_at]

NoteEntry(id, title, content, created_at, updated_at, divider_position, is_task, task_metadata) ==
  [ty |-> "NoteEntry", id |-> id, title |-> title, content |-> content,
   created_at |-> created_at, updated_at |-> updated_at, divider_position |-> divider_position,
   is_task |-> is_task, task_metadata |-> task_metadata]

NoteKeys ==
  <<"id", "title", "content", "created_at", "updated_at", "divider_position",
    "is_task", "task_metadata">>
TaskKeys == <<"priority", "tags", "due_date", "completed", "completed_at">>

OptDt(v) == IF v.ty = "none" THEN None ELSE v

\* TaskMetadata.model_dump()
TaskDump(tm) ==
  [priority |-> PInt(tm.priority), tags |-> PList(tm.tags),
   due_date |-> OptDt(tm.due_date), completed |-> PBool(tm.completed),
   completed_at |-> OptDt(tm.completed_at)]

\* NoteEntry.model_dump(): nested models become dicts, datetimes stay datetimes
model_dump(note) ==
  [id |-> PStr(note.id), title |-> PStr(note.title), content |-> PStr(note.content),
   created_at |-> note.created_at, updated_at |-> note.updated_at,
   divider_position |-> PInt(note.divider_position), is_task |-> PBool(note.is_task),
   task_metadata |-> IF note.task_metadata.ty = "none" THEN None
                     ELSE PDict(TaskDump(note.task_metadata))]

\* the decimal texts and the truth words that pydantic converts
IntText == [n \in 0..9 |-> ToString(n)]
BoolText == [b \in BOOLEAN |-> IF b THEN "true" ELSE "false"]
IsIntText(v) == v.ty = "str" /\ \E n \in DOMAIN IntText : IntText[n] = v.v
IsBoolText(v) == v.ty = "str" /\ \E b \in DOMAIN BoolText : BoolText[b] = v.v

\* pydantic validation of one field value against a field type, in its
\* default (lax) mode: a decimal string is accepted for an int field, 0, 1 and
\* a truth word for a bool field, an ISO string for a datetime field
ValidField(v, type) ==
  CASE type = "str" -> v.ty = "str"
    [] type = "int" -> v.ty = "int" \/ IsIntText(v)
    [] type = "bool" ->
         v.ty = "bool" \/ (v.ty = "int" /\ v.v \in {0, 1}) \/ IsBoolText(v)
    [] type = "list" -> v.ty = "list"
    [] type = "datetime" -> v.ty = "datetime" \/ (v.ty = "str" /\ fromisoformat(v).ok)
    [] type = "optdatetime" ->
         v.ty \in {"none", "datetime"} \/ (v.ty = "str" /\ fromisoformat(v).ok)
    [] OTHER -> FALSE

\* the value a field gets from the value given for it
AsDt(v) == IF v.ty = "str" THEN fromisoformat(v).v ELSE v
AsInt(v) ==
  IF v.ty = "str" THEN CHOOSE n \in DOMAIN IntText : IntText[n] = v.v ELSE v.v
AsBool(v) ==
  CASE v.ty = "str" -> CHOOSE b \in DOMAIN BoolText : BoolText[b] = v.v
    [] v.ty = "int" -> v.v = 1
    [] OTHER -> v.v

\* TaskMetadata(**d): due_date and completed_at default to None
TaskMetadataFromDict(d) ==
  IF /\ {"priority", "tags", "completed"} \subseteq DOMAIN d
     /\ ValidField(d["priority"], "int")
     /\ ValidField(d["tags"], "list")
     /\ ValidField(d["completed"], "bool")
     /\ ValidField(DictGet(d, "due_date"), "optdatetime")
     /\ ValidField(DictGet(d, "completed_at"), "optdatetime")
  THEN Ok(TaskMetadata(AsInt(d["priority"]), d["tags"].v,
                       AsDt(DictGet(d, "due_date")), AsBool(d["completed"]),
                       AsDt(DictGet(d, "completed_at"))))
  ELSE Err("ValidationError")

\* the value given for task_metadata: None, a TaskMetadata object or a dict
ValidTask(v) ==
  CASE v.ty = "none" -> Ok(None)
    [] v.ty = "TaskMetadata" -> Ok(v)
    [] v.ty = "dict" -> TaskMetadataFromDict(v.v)
    [] OTHER -> Err("ValidationError")

\* NoteEntry(**d): task_metadata defaults to None
NoteEntryFromDict(d) ==
  IF /\ {"id", "title", "content", "created_at", "updated_at", "divider_position",
         "is_task"} \subseteq DOMAIN d
     /\ ValidField(d["id"], "str")
     /\ ValidField(d["title"], "str")
     /\ ValidField(d["content"], "str")
     /\ ValidField(d["created_at"], "datetime")
     /\ ValidField(d["updated_at"], "datetime")
     /\ ValidField(d["divider_position"], "int")
     /\ ValidField(d["is_task"], "bool")
     /\ ValidTask(DictGet(d, "task_metadata")).ok
  THEN Ok(NoteEntry(d["id"].v, d["title"].v, d["content"].v, AsDt(d["created_at"]),
                    AsDt(d["updated_at"]), AsInt(d["divider_position"]),
                    AsBool(d["is_task"]),
                    ValidTask(DictGet(d, "task_metadata")).v))
  ELSE Err("ValidationError")

(***************************************************************************)
(* json.dumps / json.loads.  A JSON text is the sequence of the members of *)
(* its top-level object, a member whose value is an object taking a second *)
(* character; any other character makes it invalid.                        *)
(***************************************************************************)
JsonScalar(v) == v.ty \in {"none", "str", "int", "bool", "list"}

JsonSerializable(v) ==
  \/ JsonScalar(v)
  \/ v.ty = "dict" /\ \A k \in DOMAIN v.v : JsonScalar(v.v[k])

\* the characters of the member k: v
MemberText(k, v) ==
  IF v.ty = "dict" THEN <<[key |-> k, val |-> v], [close |-> k]>>
  ELSE <<[key |-> k, val |-> v]>>

RECURSIVE JsonText(_, _)
JsonText(d, keys) ==
  IF keys = <<>> THEN <<>>
  ELSE MemberText(Head(keys), d[Head(keys)]) \o JsonText(d, Tail(keys))

json_dumps(d, keys) ==
  IF \A k \in DOMAIN d : JsonSerializable(d[k])
  THEN Ok(JsonText(d, keys))
  ELSE Err("TypeError")

IsMember(c) == DOMAIN c = {"key", "val"}
IsClose(c) == DOMAIN c = {"close"}

\* every character belongs to a member, and every member is complete
IsJson(text) ==
  \A i \in DOMAIN text :
    \/ /\ IsMember(text[i])
       /\ text[i].val.ty = "dict" =>
            i < Len(text) /\ text[i + 1] = [close |-> text[i].key]
    \/ /\ IsClose(text[i])
       /\ i > 1
       /\ IsMember(text[i - 1])
       /\ text[i - 1].val.ty = "dict"
       /\ text[i - 1].key = text[i].close

json_loads(text) ==
  IF IsJson(text)
  THEN LET members == SelectSeq(text, IsMember)
       IN  Ok([k \in {members[i].key : i \in DOMAIN members} |->
                 members[CHOOSE i \in DOMAIN members :
                           /\ members[i].key = k
                           /\ \A j \in DOMAIN members :
                                members[j].key = k => j <= i].val])
  ELSE Err("JSONDecodeError")

(***************************************************************************)
(* Byte strings: slicing, utf-8, base-64, os.urandom.                      *)
(***************************************************************************)
Min(a, b) == IF a < b THEN a ELSE b
Max(a, b) == IF a > b THEN a ELSE b

\* s[lo:hi] with Python's clamping; a negative index counts from the end
PyIndex(s, i) == IF i < 0 THEN Max(Len(s) + i, 0) ELSE Min(i, Len(s))
PySlice(s, lo, hi) == SubSeq(s, PyIndex(s, lo) + 1, PyIndex(s, hi))
PyFrom(s, lo) == SubSeq(s, PyIndex(s, lo) + 1, Len(s))

utf8_encode(str) == [i \in DOMAIN str |-> [u8 |-> str[i]]]
utf8_decode(bytes) ==
  IF \A i \in DOMAIN bytes : DOMAIN bytes[i] = {"u8"}
  THEN Ok([i \in DOMAIN bytes |-> bytes[i].u8])
  ELSE Err("UnicodeDecodeError")

\* one base-64 character stands for one byte; any other character is outside
\* the alphabet, except BadPad, which stands for a truncated final quantum
BadPad == [pad |-> "="]
IsB64(c) == DOMAIN c = {"b64"}
b64encode(bytes) == [i \in DOMAIN bytes |-> [b64 |-> bytes[i]]]
\* base64.b64decode(s) without validate: characters outside the alphabet are
\* discarded, incorrect padding raises binascii.Error
b64decode(text) ==
  IF \E i \in DOMAIN text : text[i] = BadPad THEN Err("binascii.Error")
  ELSE LET kept == SelectSeq(text, IsB64)
       IN  Ok([i \in DOMAIN kept |-> kept[i].b64])

\* the r-th draw of os.urandom(n)
urandom(n, r) == [i \in 1..n |-> [rnd |-> r, i |-> i]]

(***************************************************************************)
(* EncryptionService                                                       *)
(***************************************************************************)
\* a key derived from the salt alone
_derive_key_SaltOnly(password, salt) == [password |-> "", salt |-> salt]

\* PBKDF2-HMAC-SHA256: deterministic in (password, salt)
_derive_key(password, salt) == [password |-> password, salt |-> salt]

NoKey == [password |-> "", salt |-> <<>>]

\* AES-GCM: ciphertext as long as the plaintext, tag of TagLen bytes.  Byte i
\* of the ciphertext names its plaintext byte, and byte 1 also the key and
\* nonce of the key stream; byte 1 of the tag names what the tag authenticates.
GcmCiphertext(key, nonce, pt) ==
  [i \in DOMAIN pt |->
     [i |-> i, p |-> pt[i],
      ks |-> IF i = 1 THEN [key |-> key, nonce |-> nonce] ELSE [key |-> NoKey, nonce |-> <<>>]]]
GcmTag(key, nonce, ct) ==
  [j \in 1..TagLen |->
     [j |-> j,
      mac |-> IF j = 1 THEN [key |-> key, nonce |-> nonce, ct |-> ct]
              ELSE [key |-> NoKey, nonce |-> <<>>, ct |-> <<>>]]]

\* every random draw the same
encrypt_SameRandom(data, password, e) ==
  LET salt == urandom(SaltLen, 0)
      nonce == urandom(NonceLen, 1)
      key == _derive_key(password, salt)
      ciphertext == GcmCiphertext(key, nonce, utf8_encode(data))
      encrypted_data == salt \o nonce \o ciphertext \o GcmTag(key, nonce, ciphertext)
  IN  b64encode(encrypted_data)

\* encrypt(data, password) on the e-th call
encrypt(data, password, e) ==
  LET salt == urandom(SaltLen, 2 * e)
      nonce == urandom(NonceLen, 2 * e + 1)
      key == _derive_key(password, salt)
      ciphertext == GcmCiphertext(key, nonce, utf8_encode(data))
      encrypted_data == salt \o nonce \o ciphertext \o GcmTag(key, nonce, ciphertext)
  IN  b64encode(encrypted_data)

\* the tag taken for part of the ciphertext
Components_NoTag(data) ==
  [salt |-> PySlice(data, 0, SaltLen),
   nonce |-> PySlice(data, SaltLen, SaltLen + NonceLen),
   ciphertext |-> PyFrom(data, SaltLen + NonceLen),
   tag |-> PyFrom(data, -TagLen)]

\* data[:16], data[16:28], data[28:-16], data[-16:]
Components(data) ==
  [salt |-> PySlice(data, 0, SaltLen),
   nonce |-> PySlice(data, SaltLen, SaltLen + NonceLen),
   ciphertext |-> PySlice(data, SaltLen + NonceLen, -TagLen),
   tag |-> PyFrom(data, -TagLen)]

decrypt(encrypted_data, password) ==
  LET dec == b64decode(encrypted_data)
  IN  IF ~dec.ok THEN Err("ValueError")
      ELSE LET data == dec.v
               salt == Components(data).salt
               nonce == Components(data).nonce
               ciphertext == Components(data).ciphertext
               tag == Components(data).tag
               key == _derive_key(password, salt)
           IN  IF Len(tag) < TagLen THEN Err("ValueError")
               ELSE IF tag # GcmTag(key, nonce, ciphertext) THEN Err("ValueError")
               ELSE LET plaintext == [i \in DOMAIN ciphertext |-> ciphertext[i].p]
                        str == utf8_decode(plaintext)
                    IN  IF str.ok THEN str ELSE Err("ValueError")

(***************************************************************************)
(* LocalFSBackend: the encoding of a note and its inverse.                 *)
(***************************************************************************)
\* save_note, up to json.dumps: the dict that is serialised
SaveDict(note) ==
  LET d0 == model_dump(note)
      d1 == [d0 EXCEPT !["created_at"] = PStr(isoformat(note.created_at)),
                       !["updated_at"] = PStr(isoformat(note.updated_at))]
      d2 == IF Truthy(note.task_metadata) /\ Truthy(note.task_metadata.due_date)
            THEN [d1 EXCEPT !["task_metadata"].v["due_date"] =
                              PStr(isoformat(note.task_metadata.due_date))]
            ELSE d1
  IN  IF Truthy(note.task_metadata) /\ Truthy(note.task_metadata.completed_at)
      THEN [d2 EXCEPT !["task_metadata"].v["completed_at"] =
                        PStr(isoformat(note.task_metadata.completed_at))]
      ELSE d2

\* save_note, up to the write: the text that goes into the file
EncodeNote(note, password, e) ==
  LET note_json == json_dumps(SaveDict(note), NoteKeys)
  IN  IF note_json.ok THEN Ok(encrypt(note_json.v, password, e)) ELSE note_json

\* note_dict[k] = datetime.fromisoformat(note_dict[k])
ParseKey(d, k) ==
  IF k \notin DOMAIN d THEN Err("KeyError")
  ELSE LET t == fromisoformat(d[k])
       IN  IF t.ok THEN Ok([d EXCEPT ![k] = t.v]) ELSE t

\* if d.get(k): d[k] = datetime.fromisoformat(d[k])
ParseOptKey(d, k) == IF Truthy(DictGet(d, k)) THEN ParseKey(d, k) ELSE Ok(d)

\* the task_metadata branch of get_note and list_notes
ParseTask(d) ==
  LET tmv == DictGet(d, "task_metadata")
  IN  IF ~Truthy(tmv) THEN Ok(d)
      ELSE IF tmv.ty # "dict" THEN Err("AttributeError")
      ELSE LET t1 == ParseOptKey(tmv.v, "due_date")
           IN  IF ~t1.ok THEN t1
               ELSE LET t2 == ParseOptKey(t1.v, "completed_at")
                    IN  IF ~t2.ok THEN t2
                        ELSE LET tm == TaskMetadataFromDict(t2.v)
                             IN  IF tm.ok THEN Ok([d EXCEPT !["task_metadata"] = tm.v])
                                 ELSE tm

\* from the text of a file to a NoteEntry
DecodeNote(encrypted_data, password) ==
  LET note_json == decrypt(encrypted_data, password)
  IN  IF ~note_json.ok THEN note_json
      ELSE LET js == json_loads(note_json.v)
           IN  IF ~js.ok THEN js
               ELSE LET c == ParseKey(js.v, "created_at")
                    IN  IF ~c.ok THEN c
                        ELSE LET u == ParseKey(c.v, "updated_at")
                             IN  IF ~u.ok THEN u
                                 ELSE LET t == ParseTask(u.v)
                                      IN  IF t.ok THEN NoteEntryFromDict(t.v) ELSE t

(***************************************************************************)
(* The notes directory.                                                    *)
(***************************************************************************)
NoFile == [exists |-> FALSE]
File(text) == [exists |-> TRUE, text |-> text]
EmptyText == <<>>

\* f.read() of a file opened with encoding='utf-8'
NonUtf8 == [bin |-> "ff"]
ReadText(f) ==
  IF \E i \in DOMAIN f.text : f.text[i] = NonUtf8 THEN Err("UnicodeDecodeError")
  ELSE Ok(f.text)

\* file_path.exists(), for the path notes/<note_id>.json
Exists(dir, note_id) == file_path(note_id) \in DOMAIN dir /\ dir[file_path(note_id)].exists

(***************************************************************************)
(* list_notes: the query pipeline.                                         *)
(***************************************************************************)
ListOptions(limit, offset, start_date, end_date, is_task) ==
  [ty |-> "ListOptions", limit |-> limit, offset |-> offset,
   start_date |-> start_date, end_date |-> end_date, is_task |-> is_task]

\* one pass of the loop of list_notes: the note of a file, or the exception
\* that makes the loop skip it
LoadFile(f, password) ==
  LET encrypted_data == ReadText(f)
  IN  IF encrypted_data.ok THEN DecodeNote(encrypted_data.v, password)
      ELSE encrypted_data

\* the loop left at the first file that fails (break for continue)
RECURSIVE LoadAll_Break(_, _)
LoadAll_Break(loaded, order) ==
  IF order = <<>> THEN <<>>
  ELSE LET note == loaded[Head(order)]
       IN  IF note.ok THEN <<note.v>> \o LoadAll_Break(loaded, Tail(order)) ELSE <<>>

\* the notes of the files that load, in enumeration order
RECURSIVE LoadAll(_, _)
LoadAll(loaded, order) ==
  IF order = <<>> THEN <<>>
  ELSE LET note == loaded[Head(order)]
           rest == LoadAll(loaded, Tail(order))
       IN  IF note.ok THEN <<note.v>> \o rest ELSE rest

\* a start bound that leaves out the notes created exactly at it
FilterStart_Exclusive(notes, start_date) ==
  LET keep(n) == n.created_at.ts > start_date.ts IN SelectSeq(notes, keep)

\* [n for n in notes if keep(n)]
FilterStart(notes, start_date) ==
  LET keep(n) == n.created_at.ts >= start_date.ts IN SelectSeq(notes, keep)
FilterEnd(notes, end_date) ==
  LET keep(n) == n.created_at.ts <= end_date.ts IN SelectSeq(notes, keep)
FilterTask(notes, is_task) ==
  LET keep(n) == n.is_task = is_task.v IN SelectSeq(notes, keep)

\* the task filter guarded by "if options.is_task:"
ApplyFilters_TaskTruthy(notes, options) ==
  IF ~Truthy(options) THEN notes
  ELSE LET n1 == IF Truthy(options.start_date)
                 THEN FilterStart(notes, options.start_date) ELSE notes
           n2 == IF Truthy(options.end_date)
                 THEN FilterEnd(n1, options.end_date) ELSE n1
       IN  IF Truthy(options.is_task) THEN FilterTask(n2, options.is_task) ELSE n2

\* if options: ... if options.is_task is not None: ...
ApplyFilters(notes, options) ==
  IF ~Truthy(options) THEN notes
  ELSE LET n1 == IF Truthy(options.start_date)
                 THEN FilterStart(notes, options.start_date) ELSE notes
           n2 == IF Truthy(options.end_date)
                 THEN FilterEnd(n1, options.end_date) ELSE n1
       IN  IF options.is_task.ty # "none" THEN FilterTask(n2, options.is_task) ELSE n2

\* notes.sort(key=lambda n: n.created_at): a stable sort
RECURSIVE InsertByCreated(_, _)
InsertByCreated(sorted, n) ==
  IF sorted = <<>> THEN <<n>>
  ELSE IF Head(sorted).created_at.ts <= n.created_at.ts
       THEN <<Head(sorted)>> \o InsertByCreated(Tail(sorted), n)
       ELSE <<n>> \o sorted
RECURSIVE SortByCreated(_)
SortByCreated(notes) ==
  IF notes = <<>> THEN <<>>
  ELSE InsertByCreated(SortByCreated(SubSeq(notes, 1, Len(notes) - 1)),
                       notes[Len(notes)])

\* the limit applied before the offset
Paginate_LimitFirst(notes, options) ==
  LET n1 == IF Truthy(options) /\ Truthy(options.limit)
            THEN PySlice(notes, 0, options.limit.v) ELSE notes
  IN  IF Truthy(options) /\ Truthy(options.offset)
      THEN PyFrom(n1, options.offset.v) ELSE n1

\* if options.offset: notes = notes[options.offset:]
\* if options.limit: notes = notes[:options.limit]
Paginate(notes, options) ==
  LET n1 == IF Truthy(options) /\ Truthy(options.offset)
            THEN PyFrom(notes, options.offset.v) ELSE notes
  IN  IF Truthy(options) /\ Truthy(options.limit)
      THEN PySlice(n1, 0, options.limit.v) ELSE n1

\* list_notes after the loop: loaded is what each file gave, order the order
\* in which glob enumerated the files
list_notes(loaded, options, order) ==
  Paginate(SortByCreated(ApplyFilters(LoadAll(loaded, order), options)), options)

\* the orders in which glob("*.json") may enumerate the files of dir
GlobOrders(dir) ==
  LET present == {i \in DOMAIN dir : dir[i].exists}
  IN  {o \in [1..Cardinality(present) -> present] :
         \A i, j \in DOMAIN o : i # j => o[i] # o[j]}

(***************************************************************************)
(* The inputs of the model.                                                *)
(***************************************************************************)
\* a plain note; a task with every optional field set and a repeated tag; a
\* task whose metadata holds only falsy values and whose content is empty
PlainNote(id) == NoteEntry(id, "title1", "text", Dt(1), Dt(2), 0, FALSE, None)
FullTask(id) ==
  NoteEntry(id, "title2", "text", Dt(0), Dt(0), 7, TRUE,
            TaskMetadata(1, <<"x", "x">>, Dt(1), TRUE, Dt(2)))
BareTask(id) ==
  NoteEntry(id, "title3", "", Dt(2), Dt(1), 3, TRUE,
            TaskMetadata(0, <<>>, None, FALSE, None))

SampleNotes(id) == {PlainNote(id), FullTask(id), BareTask(id)}

\* the file of test_corrupted_data_recovery: "invalid-encrypted-data"
GarbageText ==
  [i \in 1..4 |-> IF i = 2 THEN [junk |-> "-"] ELSE [b64 |-> [raw |-> i]]]

\* the plaintext of test_invalid_json_handling: "{ invalid json content"
InvalidJson == <<[ch |-> "{"], [ch |-> "x"]>>

\* what another program may leave in the notes directory: garbage, nothing,
\* bytes that are no UTF-8, and invalid JSON encrypted under a password (with
\* random bytes of its own)
ForeignTexts ==
  {GarbageText, EmptyText, <<NonUtf8>>}
    \cup {encrypt(InvalidJson, password, -1) : password \in Passwords}

(***************************************************************************)
(* State.                                                                  *)
(***************************************************************************)
VARIABLES
  files,     \* the notes directory: id |-> NoFile or File(text)
  entropy,   \* the number of encrypt calls so far
  pending,   \* writer |-> the file it has open for writing, or None
  last,      \* history: id |-> the last operation on its file
  ret,       \* the last operation that returned, and what it returned
  listing,   \* the list_notes call that is under way, or None
  sessions,  \* main.sessions: token |-> NoSession or its password and expiry
  issued,    \* the number of secrets.token_urlsafe calls so far
  now,       \* datetime.now()
  backend    \* main.storage_backend: None or the password it was made with

\* the state of main.py
appVars == <<sessions, issued, now, backend>>

vars == <<files, entropy, pending, last, ret, listing, sessions, issued, now, backend>>

\* the session table.  secrets.token_urlsafe(32) on its r-th call: draws are
\* taken never to repeat
MaxSessions == 2
token_urlsafe(r) == "token" \o ToString(r)
Tokens == {token_urlsafe(r) : r \in 1..MaxSessions}
NoSession == [ty |-> "none"]

\* no list under way, no session, no backend made yet
InitApp ==
  /\ listing = None
  /\ sessions = [t \in Tokens |-> NoSession]
  /\ issued = 0
  /\ now = 0
  /\ backend = None

\* the processes that may be saving at the same time
Writers == {"w1", "w2"}

\* StorageError(message, cause): the message names the operation and the
\* ids it is about, the cause is the exception that was caught (or None)
StorageError(message, cause) ==
  [ok |-> FALSE, exc |-> "StorageError", message |-> message, cause |-> cause]

\* history records.  A save records what it replaced: nothing ("none"), a
\* note saved under the same password with task metadata ("task") or without
\* ("plain"), or anything else ("other").  A delete records whether it removed
\* a file, under which password the file it removed had been saved, and
\* whether it came right after a delete that did.
NoHistory == [op |-> "none"]
Replaced(before, password) ==
  IF before.op = "save" /\ before.password = password
  THEN IF before.note.task_metadata.ty = "none" THEN "plain" ELSE "task"
  ELSE IF before.op = "save" \/ before.op = "external" THEN "other" ELSE "none"
Saved(before, note, password) ==
  [op |-> "save", note |-> note, password |-> password,
   replaced |-> Replaced(before, password)]
Deleted(before, removed) ==
  [op |-> "delete", removed |-> removed,
   under |-> IF removed /\ before.op = "save" THEN before.password ELSE "none",
   again |-> (before.op = "delete" /\ before.removed)]
Foreign == [op |-> "external"]

Init ==
  /\ InitApp
  /\ files = [i \in Ids |-> NoFile]
  /\ entropy = 0
  /\ pending = [w \in Writers |-> None]
  /\ last = [i \in Ids |-> NoHistory]
  /\ ret = [op |-> "init"]

(***************************************************************************)
(* save_note                                                               *)
(***************************************************************************)
\* open(file_path, 'w'): the file is created or truncated; the open fails for
\* a path whose directory does not exist
CanOpen(dir, note_id) == file_path(note_id) \in DOMAIN dir
OpenForWrite(dir, note_id) == [dir EXCEPT ![file_path(note_id)] = File(EmptyText)]

\* f.write(encrypted_data) and close: the bytes go to the start of the file
WriteAtStart(dir, note_id, encrypted_data) ==
  LET old == IF dir[file_path(note_id)].exists THEN dir[file_path(note_id)].text ELSE EmptyText
  IN  [dir EXCEPT ![file_path(note_id)] =
         File(encrypted_data \o SubSeq(old, Len(encrypted_data) + 1, Len(old)))]

\* a file opened in append mode
WriteFile_Append(dir, note_id, encrypted_data) ==
  LET old == IF dir[file_path(note_id)].exists THEN dir[file_path(note_id)].text ELSE EmptyText
  IN  [dir EXCEPT ![file_path(note_id)] = File(old \o encrypted_data)]

\* with open(file_path, 'w') as f: f.write(encrypted_data)
WriteFile(dir, note_id, encrypted_data) ==
  WriteAtStart(OpenForWrite(dir, note_id), note_id, encrypted_data)

\* except Exception as e: raise StorageError(f"Failed to save note ...", e),
\* where e comes from the encoding or from the open
SaveError(note, encrypted_data) ==
  StorageError(<<"Failed to save note", note.id>>,
               IF encrypted_data.ok THEN Err("FileNotFoundError") ELSE encrypted_data)

\* save_note as one step: it has no await between open and close
SaveNote(password, note) ==
  /\ UNCHANGED <<listing, appVars>>
  /\ entropy < MaxEncrypt
  /\ entropy' = entropy + 1
  /\ UNCHANGED pending
  /\ LET encrypted_data == EncodeNote(note, password, entropy)
     IN  IF encrypted_data.ok /\ CanOpen(files, note.id)
         THEN /\ files' = WriteFile(files, note.id, encrypted_data.v)
              /\ last' = [last EXCEPT ![file_path(note.id)] = Saved(@, note, password)]
              /\ ret' = [op |-> "save", id |-> note.id, password |-> password,
                         out |-> Ok(None)]
         ELSE /\ UNCHANGED <<files, last>>
              /\ ret' = [op |-> "save", id |-> note.id, password |-> password,
                         out |-> SaveError(note, encrypted_data)]

(***************************************************************************)
(* get_note                                                                *)
(***************************************************************************)
\* every failure reported as "not found"
get_note_ErrorAsAbsent(dir, password, note_id) ==
  IF ~Exists(dir, note_id) THEN Ok(None)
  ELSE LET note == LoadFile(dir[file_path(note_id)], password)
       IN  IF note.ok THEN note ELSE Ok(None)

get_note(dir, password, note_id) ==
  IF ~Exists(dir, note_id) THEN Ok(None)
  ELSE LET note == LoadFile(dir[file_path(note_id)], password)
       IN  IF note.ok THEN note
           ELSE StorageError(<<"Failed to get note", note_id>>, note)

\* a get that removes the file it cannot load
GetNote_Unlinks(password, note_id) ==
  /\ UNCHANGED <<listing, appVars>>
  /\ ret' = [op |-> "get", id |-> note_id, password |-> password,
             out |-> get_note(files, password, note_id)]
  /\ files' = IF get_note(files, password, note_id).ok THEN files
              ELSE [files EXCEPT ![file_path(note_id)] = NoFile]
  /\ UNCHANGED <<entropy, pending, last>>

GetNote(password, note_id) ==
  /\ UNCHANGED <<listing, appVars>>
  /\ ret' = [op |-> "get", id |-> note_id, password |-> password,
             out |-> get_note(files, password, note_id)]
  /\ UNCHANGED <<files, entropy, pending, last>>

(***************************************************************************)
(* delete_note                                                             *)
(***************************************************************************)
\* an unlink that removes nothing
Unlink_Nothing(dir, note_id) == dir

\* file_path.unlink()
Unlink(dir, note_id) == [dir EXCEPT ![file_path(note_id)] = NoFile]

\* a delete that decrypts the file before it removes it
DeleteNote_ChecksPassword(password, note_id) ==
  /\ UNCHANGED <<listing, appVars, entropy, pending>>
  /\ \E note \in {get_note(files, password, note_id)} :
       IF ~Exists(files, note_id) \/ ~note.ok
       THEN /\ ret' = [op |-> "delete", id |-> note_id, password |-> password,
                       out |-> IF note.ok THEN Ok(PBool(FALSE)) ELSE note]
            /\ UNCHANGED <<files, last>>
       ELSE /\ files' = [files EXCEPT ![file_path(note_id)] = NoFile]
            /\ ret' = [op |-> "delete", id |-> note_id, password |-> password,
                       out |-> Ok(PBool(TRUE))]
            /\ last' = IF file_path(note_id) \in Ids
                       THEN [last EXCEPT ![file_path(note_id)] = Deleted(@, TRUE)]
                       ELSE last

DeleteNote(password, note_id) ==
  /\ UNCHANGED <<listing, appVars>>
  /\ IF ~Exists(files, note_id)
     THEN /\ ret' = [op |-> "delete", id |-> note_id, password |-> password,
                     out |-> Ok(PBool(FALSE))]
          /\ UNCHANGED files
     ELSE /\ files' = Unlink(files, note_id)
          /\ ret' = [op |-> "delete", id |-> note_id, password |-> password,
                     out |-> Ok(PBool(TRUE))]
  /\ last' = IF file_path(note_id) \in Ids
             THEN [last EXCEPT ![file_path(note_id)] = Deleted(@, Exists(files, note_id))]
             ELSE last
  /\ UNCHANGED <<entropy, pending>>

(***************************************************************************)
(* list_notes                                                              *)
(***************************************************************************)
\* what the loop of list_notes gets from each file of the directory
LoadedFiles(dir, password) ==
  [i \in {j \in DOMAIN dir : dir[j].exists} |-> LoadFile(dir[i], password)]

\* every file is read and decoded once, whatever the order of enumeration
ListNotes(password, options) ==
  /\ UNCHANGED <<listing, appVars>>
  /\ \E loaded \in {LoadedFiles(files, password)} :
       ret' \in {[op |-> "list", password |-> password, options |-> options,
                  out |-> Ok(PList(list_notes(loaded, options, order)))] :
                   order \in GlobOrders(files)}
  /\ UNCHANGED <<files, entropy, pending, last>>

Next ==
  \/ \E password \in Passwords, id \in AllIds :
       \E note \in SampleNotes(id) : SaveNote(password, note)
  \/ \E password \in Passwords, id \in AllIds : GetNote(password, id)
  \/ \E password \in Passwords, id \in AllIds : DeleteNote(password, id)
  \/ \E password \in Passwords : ListNotes(password, None)

\* the store, started on an empty notes directory
Spec == Init /\ [][Next]_vars

(***************************************************************************)
(* The store started on a notes directory in which another program has     *)
(* left a file (LocalFSBackend.__init__ keeps an existing directory).      *)
(***************************************************************************)
InitForeign ==
  /\ InitApp
  /\ \E id \in Ids, text \in ForeignTexts :
       files = [i \in Ids |-> IF i = id THEN File(text) ELSE NoFile]
  /\ entropy = 0
  /\ pending = [w \in Writers |-> None]
  /\ last = [i \in Ids |-> IF files[i].exists THEN Foreign ELSE NoHistory]
  /\ ret = [op |-> "init"]

SpecForeign == InitForeign /\ [][Next]_vars

(***************************************************************************)
(* save_note step by step, as the operating system and other processes on  *)
(* the same notes directory see it: open(file_path, 'w') truncates the     *)
(* file in place, f.write puts the envelope in it, and a write that raises *)
(* leaves the file as the open made it.                                    *)
(***************************************************************************)
Opened(note, password, encrypted_data) ==
  [ty |-> "open", note |-> note, password |-> password,
   encrypted_data |-> encrypted_data]

\* save_note up to and including open(file_path, 'w')
SaveOpen(w, password, note) ==
  /\ UNCHANGED <<listing, appVars>>
  /\ pending[w] = None
  /\ entropy < MaxEncrypt
  /\ entropy' = entropy + 1
  /\ UNCHANGED last
  /\ LET encrypted_data == EncodeNote(note, password, entropy)
     IN  IF encrypted_data.ok /\ CanOpen(files, note.id)
         THEN /\ files' = OpenForWrite(files, note.id)
              /\ pending' = [pending EXCEPT
                               ![w] = Opened(note, password, encrypted_data.v)]
              /\ UNCHANGED ret
         ELSE /\ UNCHANGED <<files, pending>>
              /\ ret' = [op |-> "save", id |-> note.id, password |-> password,
                         out |-> SaveError(note, encrypted_data)]

\* f.write(encrypted_data) and the close at the end of the with block
SaveWrite(w) ==
  /\ UNCHANGED <<listing, appVars>>
  /\ pending[w] # None
  /\ LET o == pending[w]
     IN  /\ files' = WriteAtStart(files, o.note.id, o.encrypted_data)
         /\ last' = [last EXCEPT ![file_path(o.note.id)] = Saved(@, o.note, o.password)]
         /\ ret' = [op |-> "save", id |-> o.note.id, password |-> o.password,
                    out |-> Ok(None)]
  /\ pending' = [pending EXCEPT ![w] = None]
  /\ UNCHANGED entropy

\* f.write raises (OSError: no space left, quota): except Exception turns it
\* into StorageError, and nothing restores the file
SaveWriteFails(w) ==
  /\ UNCHANGED <<listing, appVars>>
  /\ pending[w] # None
  /\ ret' = [op |-> "save", id |-> pending[w].note.id,
             password |-> pending[w].password,
             out |-> StorageError(<<"Failed to save note", pending[w].note.id>>,
                                  Err("OSError"))]
  /\ pending' = [pending EXCEPT ![w] = None]
  /\ UNCHANGED <<files, entropy, last>>

NextConc ==
  \/ \E w \in Writers, password \in Passwords, id \in AllIds :
       \E note \in SampleNotes(id) : SaveOpen(w, password, note)
  \/ \E w \in Writers : SaveWrite(w)
  \/ \E w \in Writers : SaveWriteFails(w)
  \/ \E password \in Passwords, id \in AllIds : GetNote(password, id)

SpecConc == Init /\ [][NextConc]_vars

(***************************************************************************)
(* list_notes with offset and limit, on a notes directory that holds up to *)
(* five notes saved under one password at pairwise distinct created_at.    *)
(***************************************************************************)
MaxPage == 3

QueryIds == <<"q1", "q2", "q3", "q4", "q5">>
QueryPassword == "password1"
QueryNote(id, t) == NoteEntry(id, "title", "text", Dt(t), Dt(t), 0, FALSE, None)

\* the k-th earliest of a set of times
Nth(T, k) == CHOOSE t \in T : Cardinality({u \in T : u < t}) = k - 1

\* the notes were created one after the other, q1 first, at the times of T;
\* glob enumerates their files in any order
InitQuery ==
  /\ InitApp
  /\ \E T \in {S \in SUBSET Times : Cardinality(S) <= Len(QueryIds)} :
       /\ files = [k \in 1..Len(QueryIds) |->
                     IF k <= Cardinality(T)
                     THEN File(EncodeNote(QueryNote(QueryIds[k], Nth(T, k)),
                                          QueryPassword, k - 1).v)
                     ELSE NoFile]
       /\ last = [k \in 1..Len(QueryIds) |->
                    IF k <= Cardinality(T)
                    THEN Saved(NoHistory, QueryNote(QueryIds[k], Nth(T, k)),
                               QueryPassword)
                    ELSE NoHistory]
       /\ entropy = Cardinality(T)
  /\ pending = [w \in Writers |-> None]
  /\ ret = [op |-> "init"]

\* GET /notes?offset=o&limit=l
QueryOptions ==
  {ListOptions(PInt(limit), PInt(offset), None, None, None) :
     offset \in 1..MaxPage, limit \in 1..MaxPage}

NextQuery == \E options \in QueryOptions : ListNotes(QueryPassword, options)

SpecQuery == InitQuery /\ [][NextQuery]_vars

(***************************************************************************)
(* list_notes with filters, offsets and limits of every kind, on a notes   *)
(* directory of up to three notes saved under one password.  list_notes    *)
(* leaves the directory as it is, so one call per directory shows all.     *)
(***************************************************************************)
ListIds == <<"l1", "l2", "l3">>
ListNote(id, t, task) == NoteEntry(id, "title", "text", Dt(t), Dt(t), 0, task, None)

\* the directory that holds notes[1] .. notes[n], saved in this order
StoreOf(ids, notes) ==
  [k \in 1..Len(ids) |->
     IF k <= Len(notes)
     THEN File(EncodeNote(notes[k], QueryPassword, k - 1).v)
     ELSE NoFile]
HistoryOf(ids, notes) ==
  [k \in 1..Len(ids) |->
     IF k <= Len(notes) THEN Saved(NoHistory, notes[k], QueryPassword)
     ELSE NoHistory]

\* the notes were created one after the other, l1 first, tasks or not; glob
\* enumerates their files in any order
InitList ==
  /\ InitApp
  /\ \E n \in 0..Len(ListIds) :
       \E ts \in [1..n -> Times], task \in [1..n -> BOOLEAN] :
         /\ \A i, j \in 1..n : i <= j => ts[i] <= ts[j]
         /\ LET notes == [k \in 1..n |-> ListNote(ListIds[k], ts[k], task[k])]
            IN  /\ files = StoreOf(ListIds, notes)
                /\ last = HistoryOf(ListIds, notes)
         /\ entropy = n
  /\ pending = [w \in Writers |-> None]
  /\ ret = [op |-> "init"]

\* the query strings of GET /api/notes: dates and is_task, or offset, limit
\* and is_task
OptBool == {None, PBool(TRUE), PBool(FALSE)}
DateBounds == {None, Dt(1), Dt(MaxTime - 1)}
Limits == {None} \cup {PInt(n) : n \in 0..MaxPage}
Offsets == {None} \cup {PInt(n) : n \in -1..MaxPage}
FilterOptions ==
  {ListOptions(None, None, start_date, end_date, is_task) :
     start_date \in DateBounds, end_date \in DateBounds, is_task \in OptBool}
PageOptions ==
  {ListOptions(limit, offset, None, None, is_task) :
     limit \in Limits, offset \in Offsets, is_task \in OptBool}

NextList ==
  \E options \in FilterOptions \cup PageOptions :
    ret.op = "init" /\ ListNotes(QueryPassword, options)

SpecList == InitList /\ [][NextList]_vars

(***************************************************************************)
(* save_notes: the batch.                                                  *)
(***************************************************************************)
MaxBatch == 3

\* the loop of save_notes left at the first note that fails
RECURSIVE save_notes_StopAtFirst(_, _, _, _)
save_notes_StopAtFirst(st, password, notes, e) ==
  IF notes = <<>> THEN st
  ELSE LET note == Head(notes)
           encrypted_data == EncodeNote(note, password, e)
       IN  IF encrypted_data.ok /\ CanOpen(st.dir, note.id)
           THEN save_notes_StopAtFirst(
                  [st EXCEPT !.dir = WriteFile(@, note.id, encrypted_data.v),
                             !.hist[file_path(note.id)] = Saved(@, note, password)],
                  password, Tail(notes), e + 1)
           ELSE [st EXCEPT !.errors =
                   Append(@, <<"Note", note.id,
                               SaveError(note, encrypted_data).message>>)]

\* for note in notes: try save_note(note), except StorageError as e:
\* errors.append(f"Note {note.id}: {str(e)}").  st holds the directory, the
\* history and the errors so far; e counts the encrypt calls.
RECURSIVE save_notes(_, _, _, _)
save_notes(st, password, notes, e) ==
  IF notes = <<>> THEN st
  ELSE LET note == Head(notes)
           encrypted_data == EncodeNote(note, password, e)
       IN  IF encrypted_data.ok /\ CanOpen(st.dir, note.id)
           THEN save_notes(
                  [st EXCEPT !.dir = WriteFile(@, note.id, encrypted_data.v),
                             !.hist[file_path(note.id)] = Saved(@, note, password)],
                  password, Tail(notes), e + 1)
           ELSE save_notes(
                  [st EXCEPT !.errors =
                     Append(@, <<"Note", note.id,
                                 SaveError(note, encrypted_data).message>>)],
                  password, Tail(notes), e + 1)

\* save_notes as one step; if errors: raise StorageError(message), no cause
SaveNotes(password, notes) ==
  /\ UNCHANGED <<listing, appVars>>
  /\ entropy + Len(notes) <= MaxBatch
  /\ LET st == save_notes([dir |-> files, hist |-> last, errors |-> <<>>],
                          password, notes, entropy)
     IN  /\ files' = st.dir
         /\ last' = st.hist
         /\ ret' = [op |-> "save_notes", password |-> password, notes |-> notes,
                    out |-> IF st.errors = <<>> THEN Ok(None)
                            ELSE StorageError(<<"Batch save failed for some notes",
                                                st.errors>>, None)]
  /\ entropy' = entropy + Len(notes)
  /\ UNCHANGED pending

\* the notes a batch is made of, and the batches
BatchNotes == {PlainNote(id) : id \in AllIds} \cup {FullTask("n1")}
RECURSIVE Batches(_)
Batches(n) ==
  IF n = 0 THEN {<<>>}
  ELSE Batches(n - 1) \cup
         {Append(b, note) : b \in {c \in Batches(n - 1) : Len(c) = n - 1},
                            note \in BatchNotes}

NextBatch ==
  \/ \E password \in Passwords, notes \in Batches(MaxBatch) : SaveNotes(password, notes)
  \/ \E password \in Passwords, note \in BatchNotes : SaveNote(password, note)
  \/ \E password \in Passwords, id \in AllIds : GetNote(password, id)
  \/ \E password \in Passwords, id \in AllIds : DeleteNote(password, id)

SpecBatch == Init /\ [][NextBatch]_vars

(***************************************************************************)
(* get_notes_by_date_range, on a notes directory of up to two notes whose  *)
(* created_at and updated_at are chosen freely.  It leaves the directory   *)
(* as it is, so one call per directory shows all.                          *)
(***************************************************************************)
\* the notes updated in the range added without looking at what is there
get_notes_by_date_range_NoDedup(loaded, start_date, end_date, order1, order2) ==
  LET notes == list_notes(loaded, ListOptions(None, None, start_date, end_date, None),
                          order1)
      all_notes == list_notes(loaded, None, order2)
      keep(n) == start_date.ts <= n.updated_at.ts /\ n.updated_at.ts <= end_date.ts
  IN  SortByCreated(notes \o SelectSeq(all_notes, keep))

\* the two calls of list_notes enumerate the directory in order1 and order2
get_notes_by_date_range(loaded, start_date, end_date, order1, order2) ==
  LET notes == list_notes(loaded, ListOptions(None, None, start_date, end_date, None),
                          order1)
      all_notes == list_notes(loaded, None, order2)
      keep(n) == /\ start_date.ts <= n.updated_at.ts
                 /\ n.updated_at.ts <= end_date.ts
                 /\ ~\E i \in DOMAIN notes : notes[i] = n
      updated_notes == SelectSeq(all_notes, keep)
  IN  SortByCreated(notes \o updated_notes)

GetNotesByDateRange(password, start_date, end_date) ==
  /\ UNCHANGED <<listing, appVars>>
  /\ \E loaded \in {LoadedFiles(files, password)} :
       ret' \in {[op |-> "range", password |-> password,
                  start_date |-> start_date, end_date |-> end_date,
                  out |-> Ok(PList(get_notes_by_date_range(
                                     loaded, start_date, end_date, order1, order2)))] :
                   order1 \in GlobOrders(files), order2 \in GlobOrders(files)}
  /\ UNCHANGED <<files, entropy, pending, last>>

RangeIds == <<"r1", "r2">>
RangeNote(id, c, u) == NoteEntry(id, "title", "text", Dt(c), Dt(u), 0, FALSE, None)

InitRange ==
  /\ InitApp
  /\ \E n \in 0..Len(RangeIds) :
       \E cs \in [1..n -> Times], us \in [1..n -> Times] :
         /\ \A i, j \in 1..n : i <= j => cs[i] <= cs[j]
         /\ LET notes == [k \in 1..n |-> RangeNote(RangeIds[k], cs[k], us[k])]
            IN  /\ files = StoreOf(RangeIds, notes)
                /\ last = HistoryOf(RangeIds, notes)
         /\ entropy = n
  /\ pending = [w \in Writers |-> None]
  /\ ret = [op |-> "init"]

NextRange ==
  \E s \in Times, e \in Times :
    ret.op = "init" /\ GetNotesByDateRange(QueryPassword, Dt(s), Dt(e))

SpecRange == InitRange /\ [][NextRange]_vars

(***************************************************************************)
(* The store started on a notes directory in which another program has     *)
(* left one file: a well-formed envelope, under one of the passwords, of a  *)
(* text that is the JSON of a note with something wrong.                   *)
(***************************************************************************)
\* the JSON text of a dict, members in the order of NoteKeys
TextOf(d) == json_dumps(d, SelectSeq(NoteKeys, LAMBDA k : k \in DOMAIN d)).v

\* a dict without the key k
Without(d, k) == [j \in DOMAIN d \ {k} |-> d[j]]

\* values of a type other than the field's
WrongValues(k) ==
  CASE k \in {"id", "title", "content"} -> <<PInt(5), None>>
    [] k \in {"created_at", "updated_at"} -> <<PInt(3), PStr("yesterday"), None>>
    [] k = "divider_position" -> <<PStr("7"), PStr("x"), None>>
    [] k = "is_task" -> <<PStr("true"), PStr("maybe"), PInt(1), PInt(2), None>>
    [] k = "task_metadata" ->
         <<PStr("x"), PDict(Without(TaskDump(BareTask("n1").task_metadata), "priority")),
           PDict([TaskDump(BareTask("n1").task_metadata) EXCEPT !["priority"] = PStr("1")])>>

RequiredKeys == {NoteKeys[i] : i \in 1..(Len(NoteKeys) - 1)}

\* the texts with the i-th key missing, and with a wrong value for the i-th key
MissingTexts(d) ==
  [i \in 1..(Len(NoteKeys) - 1) |-> TextOf(Without(d, NoteKeys[i]))]
RECURSIVE WrongTexts(_, _)
WrongTexts(d, i) ==
  IF i = 0 THEN <<>>
  ELSE WrongTexts(d, i - 1) \o
         [j \in DOMAIN WrongValues(NoteKeys[i]) |->
            TextOf([d EXCEPT ![NoteKeys[i]] = WrongValues(NoteKeys[i])[j]])]

BrokenTexts(id) ==
  LET d == SaveDict(PlainNote(id))
  IN  <<InvalidJson>> \o MissingTexts(d) \o WrongTexts(d, Len(NoteKeys))

InitRecord ==
  /\ InitApp
  /\ \E id \in Ids, password \in Passwords :
       \E n \in DOMAIN BrokenTexts(id) :
         files = [i \in Ids |->
                    IF i = id THEN File(encrypt(BrokenTexts(id)[n], password, -1))
                    ELSE NoFile]
  /\ entropy = 0
  /\ pending = [w \in Writers |-> None]
  /\ last = [i \in Ids |-> IF files[i].exists THEN Foreign ELSE NoHistory]
  /\ ret = [op |-> "init"]

NextRecord ==
  \/ \E password \in Passwords, id \in AllIds : GetNote(password, id)
  \/ \E password \in Passwords : ListNotes(password, None)

SpecRecord == InitRecord /\ [][NextRecord]_vars

(***************************************************************************)
(* EncryptionService.decrypt on the text of a file: an envelope, or an     *)
(* envelope cut short, with a byte changed, or with a character that is no *)
(* base-64 in it.                                                          *)
(***************************************************************************)
\* the envelope the inputs are made from
Envelope == encrypt(InvalidJson, QueryPassword, 0)

\* a character outside the base-64 alphabet, and a byte that was changed
JunkChar == [junk |-> "-"]
Flipped(c) == [b64 |-> [flip |-> c.b64]]

CutShort(text) == [n \in 1..Len(text) |-> SubSeq(text, 1, n - 1)]
WithJunk(text) ==
  [n \in 1..(Len(text) + 1) |->
     SubSeq(text, 1, n - 1) \o <<JunkChar>> \o SubSeq(text, n, Len(text))]
WithFlip(text) == [n \in 1..Len(text) |-> [text EXCEPT ![n] = Flipped(@)]]

DecryptInputs ==
  <<Envelope, Envelope \o <<BadPad>>>>
    \o CutShort(Envelope) \o WithJunk(Envelope) \o WithFlip(Envelope)

InitDecrypt ==
  /\ InitApp
  /\ \E n \in DOMAIN DecryptInputs, id \in Ids :
       files = [i \in Ids |-> IF i = id THEN File(DecryptInputs[n]) ELSE NoFile]
  /\ entropy = 1
  /\ pending = [w \in Writers |-> None]
  /\ last = [i \in Ids |-> IF files[i].exists THEN Foreign ELSE NoHistory]
  /\ ret = [op |-> "init"]

\* self.encryption_service.decrypt(encrypted_data, self.password)
Decrypt(password, note_id) ==
  /\ UNCHANGED <<listing, appVars>>
  /\ Exists(files, note_id)
  /\ ret' = [op |-> "decrypt", id |-> note_id, password |-> password,
             out |-> decrypt(files[note_id].text, password)]
  /\ UNCHANGED <<files, entropy, pending, last>>

NextDecrypt == \E password \in Passwords, id \in Ids : Decrypt(password, id)

SpecDecrypt == InitDecrypt /\ [][NextDecrypt]_vars

(***************************************************************************)
(* EncryptionService.encrypt on plaintexts of zero to three bytes: each    *)
(* envelope is kept in a file, as save_note keeps it, and decrypt reads it  *)
(* back.  Draws of os.urandom are taken never to repeat.                    *)
(***************************************************************************)
PlainTexts == {<<>>, <<"a">>, <<"a", "b">>, <<"b", "a", "b">>}

Encrypted(data, password, e) ==
  [op |-> "encrypt", data |-> data, password |-> password, e |-> e]

\* encrypted_data = encrypt(data, password); f.write(encrypted_data)
Encrypt(data, password, note_id) ==
  /\ UNCHANGED <<listing, appVars>>
  /\ entropy < MaxEncrypt
  /\ entropy' = entropy + 1
  /\ files' = WriteFile(files, note_id, encrypt(data, password, entropy))
  /\ last' = [last EXCEPT ![file_path(note_id)] = Encrypted(data, password, entropy)]
  /\ ret' = [op |-> "encrypt", id |-> note_id, password |-> password,
             out |-> Ok(encrypt(data, password, entropy))]
  /\ UNCHANGED pending

NextEnvelope ==
  \/ \E data \in PlainTexts, password \in Passwords, id \in Ids :
       Encrypt(data, password, id)
  \/ \E password \in Passwords, id \in Ids : Decrypt(password, id)

SpecEnvelope == Init /\ [][NextEnvelope]_vars

(***************************************************************************)
(* list_notes step by step, next to saves and deletes of other processes   *)
(* on the same notes directory: glob enumerates the files once, the loop   *)
(* then opens and decodes one file at a time, as it is at that moment.     *)
(***************************************************************************)
\* a list under way: the files still to read, the notes loaded so far, the
\* exception that left the loop (None: the loop catches every one), and what
\* the files held when glob enumerated them (history)
Listing(password, options, todo, globbed) ==
  [ty |-> "listing", password |-> password, options |-> options, todo |-> todo,
   notes |-> <<>>, raised |-> None, globbed |-> globbed]

\* note_files = list(self.notes_path.glob("*.json"))
ListGlob(password, options) ==
  /\ listing = None
  /\ listing' \in {Listing(password, options, order, LoadedFiles(files, password)) :
                     order \in GlobOrders(files)}
  /\ UNCHANGED <<files, entropy, pending, last, ret, appVars>>

\* open(file_path, 'r') and f.read(), then the decoding
ReadFile(dir, password, note_id) ==
  IF Exists(dir, note_id) THEN LoadFile(dir[file_path(note_id)], password)
  ELSE Err("FileNotFoundError")

\* a loop without the inner try: the exception leaves it
ListStep_NoTry(l, dir) ==
  LET note == ReadFile(dir, l.password, Head(l.todo))
  IN  IF note.ok
      THEN [l EXCEPT !.todo = Tail(@), !.notes = Append(@, note.v)]
      ELSE [l EXCEPT !.todo = <<>>, !.raised = note]

\* one round of the loop: except Exception: continue
ListStep(l, dir) ==
  LET note == ReadFile(dir, l.password, Head(l.todo))
  IN  [l EXCEPT !.todo = Tail(@),
                !.notes = IF note.ok THEN Append(@, note.v) ELSE @]

ListRead ==
  /\ listing # None
  /\ listing.todo # <<>>
  /\ listing' = ListStep(listing, files)
  /\ UNCHANGED <<files, entropy, pending, last, ret, appVars>>

\* after the loop: filter, sort, paginate, return; an exception that got
\* here is raised as StorageError
ListReturn ==
  /\ listing # None
  /\ listing.todo = <<>>
  /\ ret' = [op |-> "list", password |-> listing.password,
             options |-> listing.options,
             out |-> IF listing.raised = None
                     THEN Ok(PList(Paginate(SortByCreated(
                            ApplyFilters(listing.notes, listing.options)),
                            listing.options)))
                     ELSE StorageError(<<"Failed to list notes">>, listing.raised)]
  /\ listing' = None
  /\ UNCHANGED <<files, entropy, pending, last, appVars>>

\* the notes saved while a list is under way: a plain note and a task, whose
\* envelopes differ in length
ConcNotes(id) == {PlainNote(id), FullTask(id)}

\* the notes directory holds a note n2, saved earlier
InitListConc ==
  /\ InitApp
  /\ files = [i \in Ids |->
                IF i = "n2"
                THEN File(EncodeNote(PlainNote(i), QueryPassword, -1).v)
                ELSE NoFile]
  /\ entropy = 0
  /\ pending = [w \in Writers |-> None]
  /\ last = [i \in Ids |->
               IF i = "n2" THEN Saved(NoHistory, PlainNote(i), QueryPassword)
               ELSE NoHistory]
  /\ ret = [op |-> "init"]

\* n1 is saved and both notes are deleted while lists are under way
NextListConc ==
  \/ \E w \in Writers, note \in ConcNotes("n1") : SaveOpen(w, QueryPassword, note)
  \/ \E w \in Writers : SaveWrite(w)
  \/ \E w \in Writers : SaveWriteFails(w)
  \/ \E id \in Ids : DeleteNote(QueryPassword, id)
  \/ ListGlob(QueryPassword, None)
  \/ ListRead
  \/ ListReturn

SpecListConc == InitListConc /\ [][NextListConc]_vars

(***************************************************************************)
(* The reading operations, on a notes directory that holds a file left by  *)
(* another program next to the notes that are saved.                       *)
(***************************************************************************)
ReadNotes == {PlainNote(id) : id \in Ids}
ReadDates == {Dt(t) : t \in {0, MaxTime}}
ReadOptions == {None, ListOptions(PInt(1), None, None, None, PBool(FALSE))}

NextRead ==
  \/ \E password \in Passwords, note \in ReadNotes : SaveNote(password, note)
  \/ \E password \in Passwords, id \in AllIds : GetNote(password, id)
  \/ \E password \in Passwords, options \in ReadOptions : ListNotes(password, options)
  \/ \E password \in Passwords, start_date \in ReadDates, end_date \in ReadDates :
       GetNotesByDateRange(password, start_date, end_date)

SpecRead == InitForeign /\ [][NextRead]_vars

(***************************************************************************)
(* The store with ids that name the same file: n1 and ./n1.                *)
(***************************************************************************)
AliasIds == Ids \cup {DotId}
AliasNotes == {PlainNote(id) : id \in AliasIds \cup {BadId}}
AliasBatches ==
  {<<PlainNote("n1"), PlainNote(DotId)>>, <<PlainNote(DotId), PlainNote("n2")>>}

NextAlias ==
  \/ \E note \in AliasNotes : SaveNote(QueryPassword, note)
  \/ \E notes \in AliasBatches : SaveNotes(QueryPassword, notes)
  \/ \E id \in AliasIds : GetNote(QueryPassword, id)
  \/ \E id \in AliasIds : DeleteNote(QueryPassword, id)
  \/ ListNotes(QueryPassword, None)

SpecAlias == Init /\ [][NextAlias]_vars

(***************************************************************************)
(* get_note while files are deleted: the existence test and the read are   *)
(* two steps, and another caller may unlink the file between them.  A file *)
(* that is open is read whole, whatever happens to its name.               *)
(***************************************************************************)
\* the read without except FileNotFoundError
get_note_read_NoCatch(dir, password, note_id) ==
  LET note == ReadFile(dir, password, note_id)
  IN  IF note.ok THEN note
      ELSE StorageError(<<"Failed to get note", note_id>>, note)

\* get_note from open(file_path, 'r') on: FileNotFoundError gives None, any
\* other exception StorageError
get_note_read(dir, password, note_id) ==
  LET note == ReadFile(dir, password, note_id)
  IN  IF note.ok THEN note
      ELSE IF note.exc = "FileNotFoundError" THEN Ok(None)
      ELSE StorageError(<<"Failed to get note", note_id>>, note)

Getting(password, note_id) == [ty |-> "get", password |-> password, id |-> note_id]

\* if not file_path.exists(): return None
GetExists(w, password, note_id) ==
  /\ pending[w] = None
  /\ IF Exists(files, note_id)
     THEN /\ pending' = [pending EXCEPT ![w] = Getting(password, note_id)]
          /\ UNCHANGED ret
     ELSE /\ ret' = [op |-> "get", id |-> note_id, password |-> password,
                     out |-> Ok(None)]
          /\ UNCHANGED pending
  /\ UNCHANGED <<files, entropy, last, listing, appVars>>

\* the rest of get_note
GetRead(w) ==
  /\ pending[w] # None
  /\ pending[w].ty = "get"
  /\ ret' = [op |-> "get", id |-> pending[w].id, password |-> pending[w].password,
             out |-> get_note_read(files, pending[w].password, pending[w].id)]
  /\ pending' = [pending EXCEPT ![w] = None]
  /\ UNCHANGED <<files, entropy, last, listing, appVars>>

\* notes are saved and deleted while gets are under way
NextGetConc ==
  \/ \E note \in ConcNotes("n1") : SaveNote(QueryPassword, note)
  \/ \E id \in Ids : DeleteNote(QueryPassword, id)
  \/ \E w \in Writers, password \in Passwords, id \in Ids : GetExists(w, password, id)
  \/ \E w \in Writers : GetRead(w)

SpecGetConc == InitListConc /\ [][NextGetConc]_vars

(***************************************************************************)
(* main.py: sessions and authentication.                                   *)
(***************************************************************************)
\* SESSION_DURATION = timedelta(hours=24), in ticks of the clock
SessionDuration == 2

Session(password, expires_at) ==
  [ty |-> "session", password |-> password, expires_at |-> expires_at]

\* create_session without a new draw
create_session_SameToken(sess, password, r, t) ==
  [session_token |-> token_urlsafe(1),
   sessions |-> [sess EXCEPT ![token_urlsafe(1)] = Session(password, t + SessionDuration)]]

\* create_session(password) at time t, on the r-th draw of a token: the token
\* returned and the session table; draws of secrets.token_urlsafe(32) do not
\* repeat
create_session(sess, password, r, t) ==
  [session_token |-> token_urlsafe(r),
   sessions |-> [sess EXCEPT ![token_urlsafe(r)] = Session(password, t + SessionDuration)]]

\* a session still accepted at the instant it expires
get_session_AtExpiry(sess, session_token, t) ==
  IF session_token \notin DOMAIN sess \/ sess[session_token] = NoSession
  THEN [session |-> NoSession, sessions |-> sess]
  ELSE IF sess[session_token].expires_at >= t
       THEN [session |-> sess[session_token], sessions |-> sess]
       ELSE [session |-> NoSession,
             sessions |-> [sess EXCEPT ![session_token] = NoSession]]

\* get_session(session_token) at time t: the session, and the table after it
get_session(sess, session_token, t) ==
  IF session_token \notin DOMAIN sess \/ sess[session_token] = NoSession
  THEN [session |-> NoSession, sessions |-> sess]
  ELSE IF sess[session_token].expires_at > t
       THEN [session |-> sess[session_token], sessions |-> sess]
       ELSE [session |-> NoSession,
             sessions |-> [sess EXCEPT ![session_token] = NoSession]]

\* a cleanup that keeps the sessions expiring at this instant
cleanup_expired_sessions_Strict(sess, t) ==
  [k \in DOMAIN sess |->
     IF sess[k] # NoSession /\ sess[k].expires_at < t THEN NoSession ELSE sess[k]]

\* cleanup_expired_sessions() at time t
cleanup_expired_sessions(sess, t) ==
  [k \in DOMAIN sess |->
     IF sess[k] # NoSession /\ sess[k].expires_at <= t THEN NoSession ELSE sess[k]]

\* an Authorization header: None, or a string, kept as its split()
Header(parts) == [ty |-> "str", parts |-> parts]
lower(word) ==
  CASE word \in {"Bearer", "BEARER", "bearer"} -> "bearer"
    [] word = "Basic" -> "basic"
    [] OTHER -> word

\* a dependency that lets every request through as the session of token 1
get_authenticated_session_Open(authorization, sess, t) ==
  [ok |-> TRUE, session |-> Session("password1", t + 1), sessions |-> sess]

\* get_authenticated_session: the session or HTTPException(401), and the
\* session table after the lookup
get_authenticated_session(authorization, sess, t) ==
  IF authorization = None \/ authorization.parts = <<>>
  THEN [ok |-> FALSE, status_code |-> 401, sessions |-> sess]
  ELSE IF Len(authorization.parts) # 2 \/ lower(authorization.parts[1]) # "bearer"
       THEN [ok |-> FALSE, status_code |-> 401, sessions |-> sess]
       ELSE LET r == get_session(sess, authorization.parts[2], t)
            IN  IF r.session = NoSession
                THEN [ok |-> FALSE, status_code |-> 401, sessions |-> r.sessions]
                ELSE [ok |-> TRUE, session |-> r.session, sessions |-> r.sessions]

\* a response: its status code and its body
Response(status_code, body) == [status_code |-> status_code, body |-> body]

(***************************************************************************)
(* main.py: the note objects that update_note changes in place.            *)
(***************************************************************************)
\* the attributes of a NoteEntry object, as Python values
Attrs(note) ==
  [id |-> PStr(note.id), title |-> PStr(note.title), content |-> PStr(note.content),
   created_at |-> note.created_at, updated_at |-> note.updated_at,
   divider_position |-> PInt(note.divider_position), is_task |-> PBool(note.is_task),
   task_metadata |-> note.task_metadata]

Raw(v) == IF v.ty \in {"str", "int", "bool"} THEN v.v ELSE v

\* the object with these attributes
ObjectOf(a) ==
  NoteEntry(Raw(a.id), Raw(a.title), Raw(a.content), a.created_at, a.updated_at,
            Raw(a.divider_position), Raw(a.is_task), a.task_metadata)

\* the attributes are of the types that NoteEntry declares
IsNoteEntry(a) ==
  /\ a.id.ty = "str" /\ a.title.ty = "str" /\ a.content.ty = "str"
  /\ a.created_at.ty = "datetime" /\ a.updated_at.ty = "datetime"
  /\ a.divider_position.ty = "int" /\ a.is_task.ty = "bool"
  /\ a.task_metadata.ty \in {"none", "TaskMetadata"}

\* update_request.model_dump(exclude_unset=True): the fields that the request
\* gave, null included; a nested model becomes a dict
DumpUpdate(update_request) ==
  [k \in DOMAIN update_request |->
     IF update_request[k].ty = "TaskMetadata"
     THEN PDict(TaskDump(update_request[k]))
     ELSE update_request[k]]

\* setattr that leaves out the fields given as null
ApplyUpdate_SkipNull(a, update_data, t) ==
  LET merged == [k \in DOMAIN a |->
                   IF k \in DOMAIN update_data /\ update_data[k] # None
                   THEN update_data[k] ELSE a[k]]
  IN  IF "updated_at" \in DOMAIN update_data THEN merged
      ELSE [merged EXCEPT !["updated_at"] = Dt(t)]

\* for field, value in update_data.items(): setattr(note, field, value), and
\* note.updated_at = datetime.now() if the request did not give it
ApplyUpdate(a, update_data, t) ==
  LET merged == [k \in DOMAIN a |->
                   IF k \in DOMAIN update_data THEN update_data[k] ELSE a[k]]
  IN  IF "updated_at" \in DOMAIN update_data THEN merged
      ELSE [merged EXCEPT !["updated_at"] = Dt(t)]

\* save_note, up to json.dumps, on an object whose attributes were set from
\* outside: isoformat of a value that is no datetime, and due_date of a dict,
\* raise AttributeError
AttrsDict(a) ==
  IF a.created_at.ty # "datetime" \/ a.updated_at.ty # "datetime"
  THEN Err("AttributeError")
  ELSE IF a.task_metadata.ty = "dict" /\ Truthy(a.task_metadata)
       THEN Err("AttributeError")
       ELSE Ok([k \in DOMAIN a |->
                  IF k \in {"created_at", "updated_at", "task_metadata"}
                  THEN SaveDict(ObjectOf(a))[k] ELSE a[k]])

EncodeAttrs(a, password, e) ==
  LET note_dict == AttrsDict(a)
  IN  IF ~note_dict.ok THEN note_dict
      ELSE LET note_json == json_dumps(note_dict.v, NoteKeys)
           IN  IF note_json.ok THEN Ok(encrypt(note_json.v, password, e))
               ELSE note_json

(***************************************************************************)
(* main.py: the endpoints.  Each request is handled in one step: no         *)
(* handler awaits anything but the store, and the store never yields.      *)
(***************************************************************************)
Request(op, authorization, id, body) ==
  [op |-> op, authorization |-> authorization, id |-> id, body |-> body]

Answer(request, response) ==
  [op |-> request.op, authorization |-> request.authorization, id |-> request.id,
   body |-> request.body, response |-> response]

\* the 401 of the dependency: the handler does not run
Unauthorized(request, auth) ==
  /\ ~auth.ok
  /\ ret' = Answer(request, Response(auth.status_code, None))
  /\ UNCHANGED <<files, entropy, last, backend>>

\* get_storage_backend: the global backend is the one of this session
get_storage_backend(session) == PStr(session.password)

\* POST /api/auth/login
Login(password) ==
  /\ issued < MaxSessions
  /\ \E loaded \in {LoadedFiles(files, password)} :
       \E order \in GlobOrders(files) :
         LET notes == Ok(PList(list_notes(loaded, None, order)))
         IN  IF ~notes.ok
             THEN /\ ret' = Answer(Request("login", None, "", PStr(password)),
                                   Response(401, None))
                  /\ UNCHANGED <<sessions, issued>>
             ELSE \E created \in {create_session(sessions, password, issued + 1, now)} :
                    /\ sessions' = cleanup_expired_sessions(created.sessions, now)
                    /\ issued' = issued + 1
                    /\ ret' = Answer(Request("login", None, "", PStr(password)),
                                     Response(200, PStr(created.session_token)))
  /\ UNCHANGED <<files, entropy, pending, last, listing, now, backend>>

\* POST /api/auth/setup
SetupPassword(password) ==
  /\ issued < MaxSessions
  /\ \E loaded \in {LoadedFiles(files, password)} :
       \E order \in GlobOrders(files) :
         LET notes == PList(list_notes(loaded, None, order))
         IN  IF Truthy(notes)
             THEN /\ ret' = Answer(Request("setup", None, "", PStr(password)),
                                   Response(400, None))
                  /\ UNCHANGED <<sessions, issued>>
             ELSE \E created \in {create_session(sessions, password, issued + 1, now)} :
                    /\ sessions' = created.sessions
                    /\ issued' = issued + 1
                    /\ ret' = Answer(Request("setup", None, "", PStr(password)),
                                     Response(200, PStr(created.session_token)))
  /\ UNCHANGED <<files, entropy, pending, last, listing, now, backend>>

\* del sessions[session_token], for the token of the header
Revoke(sess, authorization) ==
  IF authorization # None /\ Len(authorization.parts) = 2
     /\ authorization.parts[2] \in DOMAIN sess
  THEN [sess EXCEPT ![authorization.parts[2]] = NoSession]
  ELSE sess

\* POST /api/auth/logout
Logout(authorization) ==
  /\ \E auth \in {get_authenticated_session(authorization, sessions, now)} :
       \/ /\ Unauthorized(Request("logout", authorization, "", None), auth)
          /\ sessions' = auth.sessions
       \/ /\ auth.ok
          /\ sessions' = Revoke(auth.sessions, authorization)
          /\ ret' = Answer(Request("logout", authorization, "", None), Response(204, None))
          /\ UNCHANGED <<files, entropy, last, backend>>
  /\ UNCHANGED <<pending, listing, issued, now>>

\* POST /api/notes
ApiCreateNote(authorization, note) ==
  /\ \E auth \in {get_authenticated_session(authorization, sessions, now)} :
       /\ sessions' = auth.sessions
       /\ \/ Unauthorized(Request("create", authorization, note.id, note), auth)
          \/ /\ auth.ok
             /\ entropy < MaxEncrypt
             /\ backend' = get_storage_backend(auth.session)
             /\ entropy' = entropy + 1
             /\ \E encrypted_data \in {EncodeNote(note, auth.session.password, entropy)} :
                  IF encrypted_data.ok /\ CanOpen(files, note.id)
                  THEN /\ files' = WriteFile(files, note.id, encrypted_data.v)
                       /\ last' = [last EXCEPT
                                     ![file_path(note.id)] = Saved(@, note, auth.session.password)]
                       /\ ret' = Answer(Request("create", authorization, note.id, note),
                                        Response(201, note))
                  ELSE /\ UNCHANGED <<files, last>>
                       /\ ret' = Answer(Request("create", authorization, note.id, note),
                                        Response(500, None))
  /\ UNCHANGED <<pending, listing, issued, now>>

\* GET /api/notes/{note_id}
ApiGetNote(authorization, note_id) ==
  /\ \E auth \in {get_authenticated_session(authorization, sessions, now)} :
       /\ sessions' = auth.sessions
       /\ \/ Unauthorized(Request("get", authorization, note_id, None), auth)
          \/ /\ auth.ok
             /\ backend' = get_storage_backend(auth.session)
             /\ \E note \in {get_note(files, auth.session.password, note_id)} :
                  ret' = Answer(Request("get", authorization, note_id, None),
                                IF ~note.ok THEN Response(500, None)
                                ELSE IF note.v = None THEN Response(404, None)
                                ELSE Response(200, note.v))
             /\ UNCHANGED <<files, entropy, last>>
  /\ UNCHANGED <<pending, listing, issued, now>>

\* PUT /api/notes/{note_id}
ApiUpdateNote(authorization, note_id, update_request) ==
  /\ \E auth \in {get_authenticated_session(authorization, sessions, now)} :
       /\ sessions' = auth.sessions
       /\ \/ Unauthorized(Request("update", authorization, note_id, update_request), auth)
          \/ /\ auth.ok
             /\ backend' = get_storage_backend(auth.session)
             /\ \E note \in {get_note(files, auth.session.password, note_id)} :
                  IF ~note.ok \/ note.v = None
                  THEN /\ ret' = Answer(Request("update", authorization, note_id, update_request),
                                        Response(IF note.ok THEN 404 ELSE 500, None))
                       /\ UNCHANGED <<files, entropy, last>>
                  ELSE /\ entropy < MaxEncrypt
                       /\ entropy' = entropy + 1
                       /\ \E a \in {ApplyUpdate(Attrs(note.v), DumpUpdate(update_request), now)} :
                            \E encrypted_data \in {EncodeAttrs(a, auth.session.password, entropy)} :
                              IF encrypted_data.ok
                              THEN /\ files' = WriteFile(files, note_id, encrypted_data.v)
                                   /\ last' = [last EXCEPT
                                                 ![file_path(note_id)] = Saved(@, ObjectOf(a),
                                                                    auth.session.password)]
                                   /\ ret' = Answer(Request("update", authorization, note_id,
                                                            update_request),
                                                    IF IsNoteEntry(a)
                                                    THEN Response(200, ObjectOf(a))
                                                    ELSE Response(500, None))
                              ELSE /\ UNCHANGED <<files, last>>
                                   /\ ret' = Answer(Request("update", authorization, note_id,
                                                            update_request),
                                                    Response(500, None))
  /\ UNCHANGED <<pending, listing, issued, now>>

\* DELETE /api/notes/{note_id}
ApiDeleteNote(authorization, note_id) ==
  /\ \E auth \in {get_authenticated_session(authorization, sessions, now)} :
       /\ sessions' = auth.sessions
       /\ \/ Unauthorized(Request("delete", authorization, note_id, None), auth)
          \/ /\ auth.ok
             /\ backend' = get_storage_backend(auth.session)
             /\ IF ~Exists(files, note_id)
                THEN /\ ret' = Answer(Request("delete", authorization, note_id, None),
                                      Response(404, None))
                     /\ UNCHANGED files
                ELSE /\ files' = Unlink(files, note_id)
                     /\ ret' = Answer(Request("delete", authorization, note_id, None),
                                      Response(204, None))
             /\ last' = [last EXCEPT ![file_path(note_id)] = Deleted(@, Exists(files, note_id))]
             /\ UNCHANGED entropy
  /\ UNCHANGED <<pending, listing, issued, now>>

\* GET /api/notes
ApiListNotes(authorization, options) ==
  /\ \E auth \in {get_authenticated_session(authorization, sessions, now)} :
       /\ sessions' = auth.sessions
       /\ \/ Unauthorized(Request("list", authorization, "", options), auth)
          \/ /\ auth.ok
             /\ backend' = get_storage_backend(auth.session)
             /\ \E loaded \in {LoadedFiles(files, auth.session.password)} :
                  ret' \in {Answer(Request("list", authorization, "", options),
                                   Response(200, PList(list_notes(loaded, options, order)))) :
                              order \in GlobOrders(files)}
             /\ UNCHANGED <<files, entropy, last>>
  /\ UNCHANGED <<pending, listing, issued, now>>

\* the requests of the model
BogusToken == token_urlsafe(0)

\* headers that name a token which login or setup may issue; the scheme is
\* written in lower case with the first
TokenHeaders ==
  {Header(<<IF r = 1 THEN "bearer" ELSE "Bearer", token_urlsafe(r)>>) : r \in 1..MaxSessions}

\* no header, one word, another scheme, three words, a token never issued
OtherHeaders ==
  {None, Header(<<"Bearer">>), Header(<<"Basic", token_urlsafe(1)>>),
   Header(<<"Bearer", token_urlsafe(1), "x">>), Header(<<"Bearer", BogusToken>>)}

Headers == TokenHeaders \cup OtherHeaders

ApiNotes == <<PlainNote("n1"), FullTask("n1")>>

UpdateRequests ==
  <<[title |-> PStr("title9")],
    [content |-> PStr(""), updated_at |-> Dt(0)],
    [divider_position |-> PInt(5), is_task |-> PBool(TRUE)],
    [task_metadata |-> None],
    [title |-> None],
    [task_metadata |-> TaskMetadata(0, <<>>, None, FALSE, None)]>>

ApiOptions == {ListOptions(None, None, None, None, None)}

\* authentication: every header, one body for each endpoint
NextAuth ==
  \/ \E password \in Passwords : Login(password)
  \/ \E password \in Passwords : SetupPassword(password)
  \/ \E authorization \in Headers : Logout(authorization)
  \/ \E authorization \in Headers : ApiCreateNote(authorization, ApiNotes[1])
  \/ \E authorization \in Headers : ApiGetNote(authorization, "n1")
  \/ \E authorization \in Headers : ApiUpdateNote(authorization, "n1", UpdateRequests[1])
  \/ \E authorization \in Headers : ApiDeleteNote(authorization, "n1")
  \/ \E authorization \in Headers, options \in ApiOptions :
       ApiListNotes(authorization, options)

SpecAuth == Init /\ [][NextAuth]_vars

\* the note endpoints: every body, with the headers that may be accepted
NextNotes ==
  \/ \E password \in Passwords : Login(password)
  \/ \E authorization \in TokenHeaders, n \in DOMAIN ApiNotes :
       ApiCreateNote(authorization, ApiNotes[n])
  \/ \E authorization \in TokenHeaders, id \in Ids : ApiGetNote(authorization, id)
  \/ \E authorization \in TokenHeaders, id \in Ids, n \in DOMAIN UpdateRequests :
       ApiUpdateNote(authorization, id, UpdateRequests[n])
  \/ \E authorization \in TokenHeaders, id \in Ids : ApiDeleteNote(authorization, id)

SpecNotes == Init /\ [][NextNotes]_vars

(***************************************************************************)
(* Sessions over time.  datetime.now() is read once in each handler; the   *)
(* clock moves between requests.                                           *)
(***************************************************************************)
\* time passes
Tick ==
  /\ now < MaxTime
  /\ now' = now + 1
  /\ UNCHANGED <<files, entropy, pending, last, ret, listing, sessions, issued, backend>>

NextSession ==
  \/ \E password \in Passwords : Login(password)
  \/ \E authorization \in TokenHeaders : Logout(authorization)
  \/ \E authorization \in TokenHeaders : ApiGetNote(authorization, "n1")
  \/ Tick

SpecSession == Init /\ [][NextSession]_vars

(***************************************************************************)
(* get_storage_backend, step by step.  It is a plain function, so the      *)
(* framework runs it in a worker thread, and the calls of two requests may *)
(* interleave between its test of the global, its assignment and the read  *)
(* of the global that it returns.  The handler then works with the object  *)
(* that the call returned.                                                 *)
(***************************************************************************)
InFlight(authorization, session, pc, held) ==
  [ty |-> "request", authorization |-> authorization, session |-> session,
   pc |-> pc, backend |-> held]

\* the request arrives: get_authenticated_session
BackendDepends(w, authorization) ==
  /\ pending[w] = None
  /\ \E auth \in {get_authenticated_session(authorization, sessions, now)} :
       /\ sessions' = auth.sessions
       /\ \/ /\ Unauthorized(Request("get", authorization, "n1", None), auth)
             /\ UNCHANGED pending
          \/ /\ auth.ok
             /\ pending' = [pending EXCEPT
                              ![w] = InFlight(authorization, auth.session, "test", None)]
             /\ UNCHANGED <<files, entropy, last, backend, ret>>
  /\ UNCHANGED <<listing, issued, now>>

\* if storage_backend is None or storage_backend.password != session["password"]
BackendTest(w) ==
  /\ pending[w] # None
  /\ pending[w].pc = "test"
  /\ pending' = [pending EXCEPT
                   ![w].pc = IF backend = None \/ backend.v # pending[w].session.password
                             THEN "assign" ELSE "return"]
  /\ UNCHANGED <<files, entropy, last, ret, listing, appVars>>

\* storage_backend = LocalFSBackend(..., password=session["password"])
BackendAssign(w) ==
  /\ pending[w] # None
  /\ pending[w].pc = "assign"
  /\ backend' = get_storage_backend(pending[w].session)
  /\ pending' = [pending EXCEPT ![w].pc = "return"]
  /\ UNCHANGED <<files, entropy, last, ret, listing, sessions, issued, now>>

\* return storage_backend: the global as it is now
BackendReturn(w) ==
  /\ pending[w] # None
  /\ pending[w].pc = "return"
  /\ pending' = [pending EXCEPT ![w].pc = "handler", ![w].backend = backend]
  /\ UNCHANGED <<files, entropy, last, ret, listing, appVars>>

\* the handler of GET /api/notes/{note_id}, with the backend it was given
BackendGetNote(w, note_id) ==
  /\ pending[w] # None
  /\ pending[w].pc = "handler"
  /\ \E note \in {get_note(files, pending[w].backend.v, note_id)} :
       ret' = Answer(Request("get", pending[w].authorization, note_id, None),
                     IF ~note.ok THEN Response(500, None)
                     ELSE IF note.v = None THEN Response(404, None)
                     ELSE Response(200, note.v))
  /\ pending' = [pending EXCEPT ![w] = None]
  /\ UNCHANGED <<files, entropy, last, listing, appVars>>

NextBackend ==
  \/ \E password \in Passwords : Login(password)
  \/ \E authorization \in TokenHeaders : ApiCreateNote(authorization, ApiNotes[1])
  \/ \E w \in Writers, authorization \in TokenHeaders : BackendDepends(w, authorization)
  \/ \E w \in Writers : BackendTest(w)
  \/ \E w \in Writers : BackendAssign(w)
  \/ \E w \in Writers : BackendReturn(w)
  \/ \E w \in Writers : BackendGetNote(w, "n1")

SpecBackend == Init /\ [][NextBackend]_vars

(***************************************************************************)
(* Properties of the store.                                                *)
(***************************************************************************)
\* the last operation on the file of id was a save under password
SavedUnder(id, password) ==
  id \in Ids /\ last[id].op = "save" /\ last[id].password = password

\* the notes whose last save was under password and has not been undone
NotesUnder(password) == {last[id].note : id \in {i \in Ids : SavedUnder(i, password)}}

\* a call that raised StorageError
IsStorageError(out) == ~out.ok /\ out.exc = "StorageError"

\* the elements of a sequence
Range(seq) == {seq[i] : i \in DOMAIN seq}

\* C1 (round trip): a get with the password of the last save of that id
\* returns a note equal, field for field, to the one saved.
C1_RoundTrip ==
  (ret.op = "get" /\ SavedUnder(ret.id, ret.password))
    => ret.out = Ok(last[ret.id].note)

\* a get returned a task saved with due_date and completed_at set
C1_Witness ==
  /\ ret.op = "get"
  /\ SavedUnder(ret.id, ret.password)
  /\ ret.out.ok
  /\ ret.out.v.ty = "NoteEntry"
  /\ ret.out.v.task_metadata.ty = "TaskMetadata"
  /\ ret.out.v.task_metadata.due_date.ty = "datetime"
  /\ ret.out.v.task_metadata.completed_at.ty = "datetime"

\* C2 (authentication): a get with a password other than the one of the last
\* save of that id raises StorageError.
C2_Authentication ==
  (ret.op = "get" /\ ret.id \in Ids /\ last[ret.id].op = "save"
     /\ last[ret.id].password # ret.password)
    => IsStorageError(ret.out)

\* a get with the wrong password has raised
C2_Witness ==
  /\ ret.op = "get"
  /\ ret.id \in Ids
  /\ last[ret.id].op = "save"
  /\ last[ret.id].password # ret.password
  /\ IsStorageError(ret.out)

\* C3 (absence versus corruption): get returns None exactly when the id has no
\* file, and raises StorageError on every file that another program left and
\* that is no envelope of a note.
C3_AbsentOrCorrupt ==
  ret.op = "get" =>
    /\ (ret.out = Ok(None)) <=> ~Exists(files, ret.id)
    /\ (ret.id \in Ids /\ last[ret.id].op = "external") => IsStorageError(ret.out)

\* a get of a foreign file has raised
C3_Witness ==
  /\ ret.op = "get"
  /\ ret.id \in Ids
  /\ last[ret.id].op = "external"
  /\ files[ret.id].exists
  /\ IsStorageError(ret.out)

\* C4 (full overwrite): after a save that replaced a note saved under the same
\* password, get returns exactly the note of the second save.
C4_LastSaveWins ==
  (ret.op = "get" /\ SavedUnder(ret.id, ret.password)
     /\ last[ret.id].replaced \in {"plain", "task"})
    => ret.out = Ok(last[ret.id].note)

\* a note without task metadata replaced one with, and get returned it
C4_Witness ==
  /\ ret.op = "get"
  /\ SavedUnder(ret.id, ret.password)
  /\ last[ret.id].replaced = "task"
  /\ last[ret.id].note.task_metadata = None
  /\ ret.out.ok
  /\ ret.out.v.ty = "NoteEntry"
  /\ ret.out.v.task_metadata = None

C6_Delete ==
  [][/\ (ret'.op = "delete" /\ ret'.id \in Ids) =>
          /\ ret'.out = Ok(PBool(Exists(files, ret'.id)))
          /\ ~Exists(files', ret'.id)
          /\ last[ret'.id].op = "delete" => ret'.out = Ok(PBool(FALSE))
     /\ (ret'.op = "get" /\ ret'.id \in Ids /\ last[ret'.id].op = "delete") =>
          ret'.out = Ok(None)]_vars

\* a second delete, right after one that removed the file, returned False
C6_Witness ==
  /\ ret.op = "delete"
  /\ ret.id \in Ids
  /\ ret.out = Ok(PBool(FALSE))
  /\ last[ret.id].op = "delete"
  /\ last[ret.id].again

\* C7 (atomic replacement): every file of the notes directory is, whenever a
\* reader may open it, a complete envelope of a note.
C7_AtomicReplace ==
  \A id \in Ids :
    files[id].exists => \E password \in Passwords : LoadFile(files[id], password).ok

\* C8 (list skips bad files): list returns, without raising, exactly the notes
\* of the files that load under its password, each once.
C8_ListSkipsBadFiles ==
  ret.op = "list" =>
    /\ ret.out.ok
    /\ Range(ret.out.v.v) = NotesUnder(ret.password)
    /\ Len(ret.out.v.v) = Cardinality(NotesUnder(ret.password))

\* a list returned one note and left out a file that decrypts under its
\* password but holds no JSON
C8_Witness ==
  /\ ret.op = "list"
  /\ Len(ret.out.v.v) = 1
  /\ \E id \in Ids :
       /\ last[id].op = "external"
       /\ files[id] = File(encrypt(InvalidJson, ret.password, -1))

\* C9 (wrong-password asymmetry): list under a password returns, without
\* raising, exactly the notes last saved under it, while get under that
\* password raises StorageError for every note last saved under another one.
C9_WrongPasswordAsymmetry ==
  ret.op = "list" =>
    /\ ret.out.ok
    /\ Range(ret.out.v.v) = NotesUnder(ret.password)
    /\ \A id \in Ids :
         (last[id].op = "save" /\ last[id].password # ret.password) =>
           /\ IsStorageError(get_note(files, ret.password, id))
           /\ last[id].note \notin Range(ret.out.v.v)

\* a list returned one note of a directory that holds another password's too
C9_Witness ==
  /\ ret.op = "list"
  /\ Len(ret.out.v.v) = 1
  /\ \E id \in Ids : last[id].op = "save" /\ last[id].password # ret.password

\* the notes of the directory, and how many of them are older than one
StoredNotes == {last[k].note : k \in {i \in DOMAIN last : last[i].op = "save"}}
Rank(note) ==
  Cardinality({m \in StoredNotes : m.created_at.ts < note.created_at.ts})

\* C10 (pagination): with offset o >= 1 and limit l >= 1, list returns the
\* notes at positions o .. o+l-1, counted from 0 and clipped to the end, of
\* the created_at-ascending order of the notes of the directory.
C10_Pagination ==
  (ret.op = "list" /\ ret.options.ty = "ListOptions"
     /\ ret.options.offset.v >= 1 /\ ret.options.limit.v >= 1) =>
    LET page == ret.out.v.v
        o == ret.options.offset.v
        l == ret.options.limit.v
    IN  /\ Len(page) = Max(0, Min(l, Cardinality(StoredNotes) - o))
        /\ \A i \in 1..Len(page) :
             page[i] \in StoredNotes /\ Rank(page[i]) = o + i - 1

\* five notes, offset 1 and limit 2: the 2nd and 3rd earliest come back
C10_Witness ==
  /\ ret.op = "list"
  /\ Cardinality(StoredNotes) = 5
  /\ ret.options.offset.v = 1
  /\ ret.options.limit.v = 2
  /\ Len(ret.out.v.v) = 2
  /\ Rank(ret.out.v.v[1]) = 1
  /\ Rank(ret.out.v.v[2]) = 2

\* what the options ask for
NoPage(options) == options.limit = None /\ options.offset = None
NoDates(options) == options.start_date = None /\ options.end_date = None
InRange(note, options) ==
  /\ options.start_date = None \/ options.start_date.ts <= note.created_at.ts
  /\ options.end_date = None \/ note.created_at.ts <= options.end_date.ts
TaskMatch(note, options) ==
  options.is_task = None \/ note.is_task = options.is_task.v
Ascending(notes) ==
  \A i, j \in DOMAIN notes : i <= j => notes[i].created_at.ts <= notes[j].created_at.ts
IsListWith(r) == r.op = "list" /\ r.options.ty = "ListOptions"

\* C11 (date range): with dates only, list returns a note exactly when
\* start_date <= created_at <= end_date, a bound that is unset imposing
\* nothing.
C11_DateRangeInclusive ==
  (IsListWith(ret) /\ NoPage(ret.options) /\ ret.options.is_task = None) =>
    /\ Range(ret.out.v.v) = {n \in StoredNotes : InRange(n, ret.options)}
    /\ Len(ret.out.v.v) = Cardinality(Range(ret.out.v.v))

\* a list with both bounds returned a note created at start_date and a note
\* created at end_date
C11_Witness ==
  /\ IsListWith(ret)
  /\ NoPage(ret.options)
  /\ ret.options.start_date # None
  /\ ret.options.end_date # None
  /\ ret.options.start_date.ts < ret.options.end_date.ts
  /\ \E i, j \in DOMAIN ret.out.v.v :
       /\ ret.out.v.v[i].created_at = ret.options.start_date
       /\ ret.out.v.v[j].created_at = ret.options.end_date

\* C12 (task filter): with is_task = b only, list returns exactly the notes
\* whose is_task is b, for b true and b false, in created_at order; with
\* is_task unset it returns every note.
C12_TaskFilter ==
  (IsListWith(ret) /\ NoPage(ret.options) /\ NoDates(ret.options)) =>
    /\ Range(ret.out.v.v) = {n \in StoredNotes : TaskMatch(n, ret.options)}
    /\ Len(ret.out.v.v) = Cardinality(Range(ret.out.v.v))
    /\ Ascending(ret.out.v.v)

\* of three notes, two of them tasks, list with is_task = true returned two
C12_Witness ==
  /\ IsListWith(ret)
  /\ NoPage(ret.options)
  /\ NoDates(ret.options)
  /\ ret.options.is_task = PBool(TRUE)
  /\ Cardinality(StoredNotes) = 3
  /\ Cardinality({n \in StoredNotes : n.is_task}) = 2
  /\ Len(ret.out.v.v) = 2

\* the created_at-ascending arrangements of a set of notes
Arrangements(S) ==
  {s \in [1..Cardinality(S) -> S] :
     (\A i, j \in DOMAIN s : s[i] = s[j] => i = j) /\ Ascending(s)}
Drop(s, offset) ==
  IF offset = None \/ offset.v <= 0 THEN s
  ELSE SubSeq(s, Min(offset.v, Len(s)) + 1, Len(s))
Take(s, limit) ==
  IF limit = None THEN s ELSE SubSeq(s, 1, Min(limit.v, Len(s)))

\* C13 (pipeline order): for all options, the result of list is
\* take(limit, drop(offset, s)) for a created_at-ascending arrangement s of
\* the notes that pass the date and task filters.
C13_PipelineOrder ==
  IsListWith(ret) =>
    ret.out.v.v \in
      {Take(Drop(s, ret.options.offset), ret.options.limit) :
         s \in Arrangements({n \in StoredNotes :
                               InRange(n, ret.options) /\ TaskMatch(n, ret.options)})}

\* C14 (limit): whenever limit is an integer n >= 0, n = 0 included, list
\* returns at most n notes.
C14_LimitIsAtMost ==
  (IsListWith(ret) /\ ret.options.limit # None /\ ret.options.limit.v >= 0) =>
    Len(ret.out.v.v) <= ret.options.limit.v

\* what list can return under these options
ListResults(password, options) ==
  {list_notes(LoadedFiles(files, password), options, order) :
     order \in GlobOrders(files)}

\* C15 (offset): an offset <= 0 gives what no offset gives, and, without a
\* limit, an offset k > 0 gives that without its first min(k, length) notes.
C15_OffsetDrops ==
  (IsListWith(ret) /\ ret.options.offset # None) =>
    LET unset == [ret.options EXCEPT !.offset = None]
        k == ret.options.offset.v
    IN  /\ k <= 0 => ret.out.v.v \in ListResults(ret.password, unset)
        /\ (k > 0 /\ ret.options.limit = None) =>
             ret.out.v.v \in
               {SubSeq(s, Min(k, Len(s)) + 1, Len(s)) :
                  s \in ListResults(ret.password, unset)}

\* the ids of the notes of a batch whose save fails, in the order of the batch
RECURSIVE FailedIds(_)
FailedIds(notes) ==
  IF notes = <<>> THEN <<>>
  ELSE (IF Head(notes).id \in Ids THEN <<>> ELSE <<Head(notes).id>>)
         \o FailedIds(Tail(notes))

\* the ids that the message of a batch error names
NamedIds(out) == [k \in DOMAIN out.message[2] |-> out.message[2][k][2]]

\* C16 (batch): save_notes raises nothing when no save failed; otherwise it
\* raises one StorageError whose message names every failed id, and every
\* note whose save succeeded is persisted, also after a note that failed.
C16_BatchPartialFailure ==
  ret.op = "save_notes" =>
    /\ (FailedIds(ret.notes) = <<>>) <=> (ret.out = Ok(None))
    /\ FailedIds(ret.notes) # <<>> =>
         IsStorageError(ret.out) /\ NamedIds(ret.out) = FailedIds(ret.notes)
    /\ \A i \in DOMAIN ret.notes :
         (/\ ret.notes[i].id \in Ids
          /\ \A j \in DOMAIN ret.notes : ret.notes[j].id = ret.notes[i].id => j <= i)
           => get_note(files, ret.password, ret.notes[i].id) = Ok(ret.notes[i])

\* a batch whose first note failed and whose second was saved
C16_Witness ==
  /\ ret.op = "save_notes"
  /\ Len(ret.notes) >= 2
  /\ ret.notes[1].id \notin Ids
  /\ ret.notes[2].id \in Ids
  /\ IsStorageError(ret.out)
  /\ files[ret.notes[2].id].exists

\* C18 (cause): every error of save, get, delete and save_notes is a
\* StorageError that carries the exception it wraps.
C18_CauseKept ==
  (ret.op \in {"save", "get", "delete", "save_notes"} /\ ~ret.out.ok) =>
    ret.out.exc = "StorageError" /\ ret.out.cause # None

\* t lies in [start_date, end_date]
Within(t, r) == r.start_date.ts <= t.ts /\ t.ts <= r.end_date.ts

\* C17 (date range of created_at or updated_at): get_notes_by_date_range
\* returns exactly the notes created in the range or updated in it, each id
\* at most once, in created_at order.
C17_ByDateRange ==
  ret.op = "range" =>
    LET res == ret.out.v.v
    IN  /\ Range(res) = {n \in StoredNotes :
                           Within(n.created_at, ret) \/ Within(n.updated_at, ret)}
        /\ \A i, j \in DOMAIN res : res[i].id = res[j].id => i = j
        /\ Ascending(res)

\* a note created and updated in the range came back once, next to a note
\* that was only updated in it
C17_Witness ==
  /\ ret.op = "range"
  /\ Len(ret.out.v.v) = 2
  /\ \E i, j \in DOMAIN ret.out.v.v :
       /\ Within(ret.out.v.v[i].created_at, ret)
       /\ Within(ret.out.v.v[i].updated_at, ret)
       /\ ~Within(ret.out.v.v[j].created_at, ret)
       /\ Within(ret.out.v.v[j].updated_at, ret)

\* a JSON value of the type of a field
RightType(v, type) ==
  CASE type = "str" -> v.ty = "str"
    [] type = "int" -> v.ty = "int"
    [] type = "bool" -> v.ty = "bool"
    [] type = "list" -> v.ty = "list"
    [] type = "datetime" -> v.ty = "str" /\ \E t \in Times : IsoText[t] = v.v
    [] type = "optdatetime" ->
         v.ty = "none" \/ (v.ty = "str" /\ \E t \in Times : IsoText[t] = v.v)

\* a JSON object that is a task: every required field there and of its type
IsTaskObject(d) ==
  /\ {"priority", "tags", "completed"} \subseteq DOMAIN d
  /\ RightType(d["priority"], "int")
  /\ RightType(d["tags"], "list")
  /\ RightType(d["completed"], "bool")
  /\ RightType(DictGet(d, "due_date"), "optdatetime")
  /\ RightType(DictGet(d, "completed_at"), "optdatetime")

\* a plaintext that is a valid record: JSON, every required field there and
\* of its type
IsRecordText(text) ==
  /\ json_loads(text).ok
  /\ LET d == json_loads(text).v
     IN  /\ RequiredKeys \subseteq DOMAIN d
         /\ \A k \in {"id", "title", "content"} : RightType(d[k], "str")
         /\ \A k \in {"created_at", "updated_at"} : RightType(d[k], "datetime")
         /\ RightType(d["divider_position"], "int")
         /\ RightType(d["is_task"], "bool")
         /\ LET tm == DictGet(d, "task_metadata")
            IN  tm.ty = "none" \/ (tm.ty = "dict" /\ IsTaskObject(tm.v))

\* C19 (undecodable plaintext): get on a file that decrypts under the
\* password and whose plaintext is no valid record raises StorageError.
C19_BadRecordRaises ==
  (ret.op = "get" /\ Exists(files, ret.id)) =>
    LET plaintext == decrypt(files[ret.id].text, ret.password)
    IN  (plaintext.ok /\ ~IsRecordText(plaintext.v)) => IsStorageError(ret.out)

\* a text with a character that is no base-64, or with incorrect padding
NotBase64(text) == \E i \in DOMAIN text : ~IsB64(text[i])

\* the bytes a base-64 text stands for
Decoded(text) == [i \in DOMAIN text |-> text[i].b64]

\* the tag of an envelope of at least SaltLen + NonceLen + TagLen bytes
\* verifies under the key derived from the password and the envelope's salt
TagVerifies(data, password) ==
  LET salt == SubSeq(data, 1, SaltLen)
      nonce == SubSeq(data, SaltLen + 1, SaltLen + NonceLen)
      ciphertext == SubSeq(data, SaltLen + NonceLen + 1, Len(data) - TagLen)
      tag == SubSeq(data, Len(data) - TagLen + 1, Len(data))
  IN  tag = GcmTag(_derive_key(password, salt), nonce, ciphertext)

\* the inputs that decrypt has to refuse
Refused(text, password) ==
  \/ NotBase64(text)
  \/ Len(text) < SaltLen + NonceLen + TagLen
  \/ ~TagVerifies(Decoded(text), password)

\* C20 (decrypt refuses): decrypt fails, and returns no plaintext, on every
\* input that is no valid base-64, that decodes to fewer than 44 bytes, or
\* whose tag does not verify under the password and the envelope's salt.
C20_DecryptRefuses ==
  ret.op = "decrypt" =>
    (Refused(files[ret.id].text, ret.password) => ~ret.out.ok)

\* the bytes of the envelope in file id
EnvelopeBytes(id) == b64decode(files[id].text).v

\* file id holds what encrypt returned for last[id]
IsEncrypted(id) == files[id].exists /\ last[id].op = "encrypt"

\* C21 (fresh salt and nonce): two encrypt calls with the same plaintext and
\* password return different envelopes, with different salts and different
\* nonces, and decrypt of each with that password returns the plaintext.
C21_FreshEnvelopes ==
  \A i \in Ids, j \in Ids :
    /\ i # j /\ IsEncrypted(i) /\ IsEncrypted(j)
    /\ last[i].data = last[j].data /\ last[i].password = last[j].password
    => /\ files[i].text # files[j].text
       /\ Components(EnvelopeBytes(i)).salt # Components(EnvelopeBytes(j)).salt
       /\ Components(EnvelopeBytes(i)).nonce # Components(EnvelopeBytes(j)).nonce
       /\ decrypt(files[i].text, last[i].password) = Ok(last[i].data)
       /\ decrypt(files[j].text, last[j].password) = Ok(last[j].data)

C21_Witness ==
  /\ IsEncrypted("n1") /\ IsEncrypted("n2")
  /\ last["n1"].data = last["n2"].data /\ last["n1"].data # <<>>
  /\ last["n1"].password = last["n2"].password
  /\ ret.op = "decrypt" /\ ret.out = Ok(last[ret.id].data)

\* C22 (envelope layout): the envelope of a plaintext of n bytes decodes to
\* 16 + 12 + n + 16 bytes, which are the salt, the nonce, the ciphertext and
\* the tag of the call in this order, and decrypt takes these four back out
\* of it.
C22_EnvelopeLayout ==
  \A id \in Ids :
    IsEncrypted(id) =>
      LET data == EnvelopeBytes(id)
          n == Len(last[id].data)
          salt == urandom(SaltLen, 2 * last[id].e)
          nonce == urandom(NonceLen, 2 * last[id].e + 1)
          key == _derive_key(last[id].password, salt)
          ciphertext == GcmCiphertext(key, nonce, utf8_encode(last[id].data))
      IN  /\ b64decode(files[id].text).ok
          /\ Len(data) = SaltLen + NonceLen + n + TagLen
          /\ SubSeq(data, 1, SaltLen) = salt
          /\ SubSeq(data, SaltLen + 1, SaltLen + NonceLen) = nonce
          /\ SubSeq(data, SaltLen + NonceLen + 1, SaltLen + NonceLen + n) = ciphertext
          /\ SubSeq(data, SaltLen + NonceLen + n + 1, Len(data))
               = GcmTag(key, nonce, ciphertext)
          /\ Components(data) =
               [salt |-> salt, nonce |-> nonce, ciphertext |-> ciphertext,
                tag |-> GcmTag(key, nonce, ciphertext)]

C22_Witness ==
  /\ IsEncrypted("n1") /\ Len(last["n1"].data) = 3
  /\ IsEncrypted("n2") /\ Len(last["n2"].data) = 0

\* writer w completes its save in this step, and no other writer is left with
\* the same file open
CompletesLast(w) ==
  /\ pending[w] # None
  /\ pending'[w] = None
  /\ ret'.op = "save" /\ ret'.out.ok
  /\ \A v \in Writers :
       pending'[v] # None => pending'[v].note.id # pending[w].note.id

\* C23 (last write wins): when a save completes and no other save of the same
\* id is still under way, the file holds the complete envelope of the record
\* of this save, whatever other saves of the id ran at the same time, and a
\* get under its password returns that record.
C23_LastWriteWins ==
  [][\A w \in Writers :
       CompletesLast(w) =>
         /\ LoadFile(files'[pending[w].note.id], pending[w].password)
              = Ok(pending[w].note)
         /\ get_note(files', pending[w].password, pending[w].note.id)
              = Ok(pending[w].note)]_vars

\* this step of the list loaded a note from the file it read
LoadsNote ==
  /\ listing # None /\ listing' # None
  /\ Len(listing'.notes) = Len(listing.notes) + 1

\* this step is the return of the list
ReturnsList == listing # None /\ listing' = None

\* C24 (list without snapshot): a list that runs next to saves and deletes
\* returns without raising, whatever happened to the files after it
\* enumerated them; every note it loads is the record of the save that was
\* the last to complete on that file, and it returns no other record.
C24_ListNoSnapshot ==
  [][(LoadsNote =>
        /\ last[Head(listing.todo)].op = "save"
        /\ last[Head(listing.todo)].password = listing.password
        /\ last[Head(listing.todo)].note = listing'.notes[Len(listing'.notes)])
     /\
     (ReturnsList =>
        /\ ret'.out.ok
        /\ Range(ret'.out.v.v) \subseteq Range(listing.notes))]_vars

\* a list is about to return the record of a save that completed after the
\* enumeration, in place of the record that the file held when it was
\* enumerated, and without a note that was deleted after the enumeration
C24_Witness ==
  /\ listing # None
  /\ listing.todo = <<>>
  /\ DOMAIN listing.globbed = {"n1", "n2"}
  /\ listing.globbed["n1"].ok /\ listing.globbed["n2"].ok
  /\ Len(listing.notes) = 1
  /\ listing.notes[1].id = "n1"
  /\ listing.globbed["n1"].v # listing.notes[1]

(***************************************************************************)
(* Properties of the endpoints.                                            *)
(***************************************************************************)
\* the token of a header of the form 'Bearer <token>', the scheme in any
\* letter case; the empty string for any other header
BearerToken(authorization) ==
  IF authorization # None /\ Len(authorization.parts) = 2
     /\ authorization.parts[1] \in {"Bearer", "bearer", "BEARER"}
  THEN authorization.parts[2]
  ELSE ""

\* the header carries the token of a session that has not expired
IsLive(authorization) ==
  /\ BearerToken(authorization) \in Tokens
  /\ sessions[BearerToken(authorization)] # NoSession
  /\ sessions[BearerToken(authorization)].expires_at > now

GuardedOps == {"create", "get", "update", "delete", "list", "logout"}

\* C25: a request to a note endpoint or to logout that has no Authorization
\* header, a header that is not 'Bearer <token>' (the scheme compared without
\* regard to letter case), or a token that is no live session, is answered
\* with 401, and no file, no backend and no randomness is touched.
C25_Unauthenticated401 ==
  [][(ret'.op \in GuardedOps /\ ~IsLive(ret'.authorization)) =>
       (/\ ret'.response.status_code = 401
        /\ files' = files
        /\ entropy' = entropy
        /\ last' = last
        /\ backend' = backend)]_vars

\* a delete with the token of a session that was logged out, on a stored note
C25_Witness ==
  /\ ret.op = "delete"
  /\ ret.authorization = Header(<<"bearer", token_urlsafe(1)>>)
  /\ issued >= 1
  /\ sessions[token_urlsafe(1)] = NoSession
  /\ Exists(files, "n1")
  /\ ret.response.status_code = 401

\* C26: a token that was issued and whose session was removed by logout has
\* no session ever after; every request to a note endpoint or to logout that
\* presents it is answered with 401; and a login or setup that succeeds, with
\* whatever password, returns another token.
C26_LogoutIsFinal ==
  [][\A r \in 1..issued :
       sessions[token_urlsafe(r)] = NoSession =>
         (/\ sessions'[token_urlsafe(r)] = NoSession
          /\ (ret'.op \in GuardedOps /\ BearerToken(ret'.authorization) = token_urlsafe(r))
               => ret'.response.status_code = 401
          /\ (ret'.op \in {"login", "setup"} /\ ret'.response.status_code = 200)
               => ret'.response.body # PStr(token_urlsafe(r)))]_vars

\* a login that succeeds after the first token was logged out
C26_Witness ==
  /\ ret.op = "login"
  /\ ret.response = Response(200, PStr(token_urlsafe(2)))
  /\ sessions[token_urlsafe(1)] = NoSession
  /\ sessions[token_urlsafe(2)] # NoSession

\* some stored note does not load under this password
HasForeignNote(dir, password) ==
  \E id \in DOMAIN dir : Exists(dir, id) /\ ~LoadFile(dir[id], password).ok

\* C27: a login whose password cannot decrypt some stored note is answered
\* with 401 and creates no session.
C27_LoginVerifiesPassword ==
  [][(ret'.op = "login" /\ HasForeignNote(files, ret'.body.v)) =>
       (ret'.response.status_code = 401 /\ sessions' = sessions)]_vars

\* C28: a setup request is answered with 400 and creates no session whenever
\* a note file is stored, whatever its password; it succeeds only on an
\* empty store.
C28_SetupOnlyOnEmptyStore ==
  [][(ret'.op = "setup" /\ \E id \in Ids : Exists(files, id)) =>
       (ret'.response.status_code = 400 /\ sessions' = sessions)]_vars

\* the password of the session that the header names
SessionPassword(authorization) == sessions[BearerToken(authorization)].password

MergedRecord(stored, update_request, t) ==
  ObjectOf([k \in DOMAIN Attrs(stored) |->
              IF k \in DOMAIN update_request THEN update_request[k]
              ELSE IF k = "updated_at" THEN Dt(t)
              ELSE Attrs(stored)[k]])

\* C30: an authenticated PUT on a note that is stored and loads is answered
\* with 200, and a GET of the id afterwards returns the stored record with
\* exactly the fields of the request replaced, and updated_at set to the
\* current time when the request leaves it out.
C30_UpdateMerges ==
  [][(/\ ret'.op = "update"
      /\ IsLive(ret'.authorization)
      /\ Exists(files, ret'.id)
      /\ LoadFile(files[ret'.id], SessionPassword(ret'.authorization)).ok) =>
       (/\ ret'.response.status_code = 200
        /\ get_note(files', SessionPassword(ret'.authorization), ret'.id)
             = Ok(MergedRecord(
                    LoadFile(files[ret'.id], SessionPassword(ret'.authorization)).v,
                    ret'.body, now)))]_vars

\* C31: a request to a guarded endpoint that presents an issued token is
\* authenticated exactly when the token has a session whose expires_at is
\* later than the current time; a lookup at or after expiry removes the
\* entry; and a token whose entry is gone never has a session again.
C31_ExpiryIsStrict ==
  [][\A r \in 1..issued :
       /\ (/\ now' = now
           /\ ret'.op \in GuardedOps
           /\ BearerToken(ret'.authorization) = token_urlsafe(r)) =>
            (/\ ret'.response.status_code # 401
                  <=> (/\ sessions[token_urlsafe(r)] # NoSession
                       /\ sessions[token_urlsafe(r)].expires_at > now)
             /\ ret'.response.status_code = 401 => sessions'[token_urlsafe(r)] = NoSession)
       /\ sessions[token_urlsafe(r)] = NoSession => sessions'[token_urlsafe(r)] = NoSession]_vars

\* a lookup at the instant of expiry: refused, and the entry removed
C31_Witness ==
  /\ ret.op = "get"
  /\ ret.authorization = Header(<<"bearer", token_urlsafe(1)>>)
  /\ ret.response.status_code = 401
  /\ now = SessionDuration
  /\ issued = 1
  /\ sessions[token_urlsafe(1)] = NoSession

IsUnexpired(session_token) ==
  /\ sessions[session_token] # NoSession
  /\ sessions[session_token].expires_at > now

\* C40: in every request, a session that has not expired stays as it is
\* unless the request is a logout that presents its token; and the cleanup
\* that login runs removes, of the sessions that were there, exactly those
\* with expires_at <= now.
C40_RemovalIsLocal ==
  [][now' = now =>
       (/\ \A t \in Tokens :
             (/\ IsUnexpired(t)
              /\ ~(ret'.op = "logout" /\ BearerToken(ret'.authorization) = t))
               => sessions'[t] = sessions[t]
        /\ (ret'.op = "login" /\ ret'.response.status_code = 200) =>
             \A t \in Tokens \ {ret'.response.body.v} :
               sessions'[t] = IF IsUnexpired(t) THEN sessions[t] ELSE NoSession)]_vars

\* the first session removed on lookup at its expiry, the second one kept
C40_Witness ==
  /\ ret.op = "get"
  /\ ret.authorization = Header(<<"bearer", token_urlsafe(1)>>)
  /\ ret.response.status_code = 401
  /\ sessions[token_urlsafe(1)] = NoSession
  /\ sessions[token_urlsafe(2)] # NoSession
  /\ sessions[token_urlsafe(2)].expires_at > now

\* C32: a handler works with a backend whose password is the password of the
\* session of its own request.
C32_OwnPassword ==
  \A w \in Writers :
    (pending[w] # None /\ pending[w].pc = "handler") =>
      pending[w].backend.v = pending[w].session.password

\* a get that has found its file reads it in this step
ReadsNote(w) == pending[w] # None /\ pending[w].ty = "get" /\ pending'[w] = None

\* C33: a get that runs while notes are deleted returns the record stored
\* under its id at the time of the read, or None when the file is gone by
\* then; it raises StorageError only for a file that does not load under its
\* password.
C33_GetDuringDelete ==
  [][\A w \in Writers :
       ReadsNote(w) =>
         IF ~Exists(files, pending[w].id) THEN ret'.out = Ok(None)
         ELSE IF LoadFile(files[pending[w].id], pending[w].password).ok
              THEN ret'.out = Ok(last[pending[w].id].note)
              ELSE ~ret'.out.ok]_vars

\* a get has found its file and the file was deleted before the read
C33_Witness ==
  /\ pending["w1"] = Getting(QueryPassword, "n2")
  /\ ~Exists(files, "n2")
  /\ ret.op = "delete"
  /\ ret.id = "n2"
  /\ ret.out = Ok(PBool(TRUE))

\* this step ends a save of id with StorageError: refused before the open, or
\* failed in the write
SaveRaises(id) ==
  /\ ret'.op = "save"
  /\ ret'.id = id
  /\ ~ret'.out.ok
  /\ \/ (pending' = pending /\ entropy' = entropy + 1)
     \/ \E w \in Writers : pending[w] # None /\ pending'[w] = None

\* C34: when a save of id raises StorageError, the record that the last
\* completed save stored under id is what get returns afterwards.
C34_FailedSaveKeepsOld ==
  [][\A id \in Ids :
       (SaveRaises(id) /\ last[id].op = "save") =>
         get_note(files', last[id].password, id) = Ok(last[id].note)]_vars

\* C35: a step of get_note, list_notes or get_notes_by_date_range leaves
\* every file as it was, whether it returns, raises or skips a file.
C35_ReadsChangeNothing ==
  [][ret'.op \in {"get", "list", "range"} => files' = files]_vars

\* a list under a password that does not open some file of the directory
C35_Witness ==
  /\ ret.op = "list"
  /\ \E id \in Ids : Exists(files, id) /\ ~LoadFile(files[id], ret.password).ok
  /\ \E id \in Ids : Exists(files, id) /\ LoadFile(files[id], ret.password).ok

\* C36: a save or a delete of one id leaves the result of get the same for
\* every other id, whether the call succeeds or fails.
C36_OnlyOwnFile ==
  [][ret'.op \in {"save", "delete"} =>
       \A id \in AliasIds \ {ret'.id} :
         get_note(files', ret'.password, id) = get_note(files, ret'.password, id)]_vars

\* C39: get(id) returns no record with another id, and list returns no two
\* records with the same id.
C39_FileNamedAfterId ==
  /\ \A id \in AliasIds :
       LET note == get_note(files, QueryPassword, id)
       IN  (note.ok /\ note.v # None) => note.v.id = id
  /\ \A order \in GlobOrders(files) :
       LET notes == list_notes(LoadedFiles(files, QueryPassword), None, order)
       IN  \A i, j \in DOMAIN notes : notes[i].id = notes[j].id => i = j

\* C37: a delete through a handle with another password than the one the
\* file was saved under removes the file and returns true, although get
\* through that handle raises StorageError.
C37_DeleteIgnoresPassword ==
  [][(/\ ret'.op = "delete"
      /\ Exists(files, ret'.id)
      /\ \E password \in Passwords \ {ret'.password} : SavedUnder(ret'.id, password))
     => (/\ IsStorageError(get_note(files, ret'.password, ret'.id))
         /\ ret'.out = Ok(PBool(TRUE))
         /\ ~Exists(files', ret'.id))]_vars

C37_Witness ==
  /\ ret.op = "delete"
  /\ ret.out = Ok(PBool(TRUE))
  /\ ret.id \in Ids
  /\ last[ret.id].op = "delete"
  /\ last[ret.id].under \in Passwords \ {ret.password}

\* C38: with one password, the list without options holds exactly the
\* records r for which get(r.id) returns r, and an id is in the list exactly
\* when get of it returns a record.
C38_GetAndListAgree ==
  \A order \in GlobOrders(files) :
    LET notes == list_notes(LoadedFiles(files, QueryPassword), None, order)
    IN  /\ \A i \in DOMAIN notes :
             get_note(files, QueryPassword, notes[i].id) = Ok(notes[i])
        /\ \A id \in AliasIds :
             (\E i \in DOMAIN notes : notes[i].id = id)
               <=> LET note == get_note(files, QueryPassword, id)
                   IN  note.ok /\ note.v # None

====
